---- MODULE Spec2Model ----
(***************************************************************************)
(* Bulletin-board server: the reactor of server.py and the command         *)
(* dispatcher of protocol.py.                                              *)
(*                                                                         *)
(* Text is a sequence of one-character strings.  Fixed fragments of a      *)
(* response (such as "ERR Not logged in") are kept as one element; no such *)
(* fragment contains a line feed, which is always the element "\n".        *)
(* Bytes on the wire are strings too: an ASCII byte is its character, and  *)
(* "C3" "A9" are the two bytes of U+00E9; "FF" is a byte that no UTF-8     *)
(* text contains.                                                          *)
(***************************************************************************)
EXTENDS Integers, Sequences, FiniteSets, TLC

(***************************************************************************)
(* Python text primitives used by the code                                 *)
(***************************************************************************)

\* the characters str.split() and str.strip() treat as whitespace
WHITESPACE == {" ", "\t", "\n", "\r", "\f"}

IsSpace(ch) == ch \in WHITESPACE

RECURSIVE lstrip(_)
lstrip(s) == IF s # <<>> /\ IsSpace(Head(s)) THEN lstrip(Tail(s)) ELSE s

RECURSIVE rstrip(_)
rstrip(s) ==
    IF s # <<>> /\ IsSpace(s[Len(s)]) THEN rstrip(SubSeq(s, 1, Len(s) - 1)) ELSE s

\* str.strip()
strip(s) == rstrip(lstrip(s))

\* number of leading characters of s that are not whitespace
RECURSIVE TokenLen(_)
TokenLen(s) == IF s = <<>> \/ IsSpace(Head(s)) THEN 0 ELSE 1 + TokenLen(Tail(s))

\* str.split() without arguments: the whitespace-delimited tokens
RECURSIVE split(_)
split(s) ==
    LET t == lstrip(s) IN
    IF t = <<>> THEN <<>>
    ELSE LET n == TokenLen(t) IN <<SubSeq(t, 1, n)>> \o split(SubSeq(t, n + 1, Len(t)))

\* index of the first occurrence of ch in s, 0 when there is none
IndexOf(s, ch) ==
    IF \E i \in 1..Len(s) : s[i] = ch
    THEN CHOOSE i \in 1..Len(s) : s[i] = ch /\ \A j \in 1..(i - 1) : s[j] # ch
    ELSE 0

\* str.split(sep, 1): at most two parts, cut at the first sep
split1(s, sep) ==
    LET i == IndexOf(s, sep) IN
    IF i = 0 THEN <<s>> ELSE <<SubSeq(s, 1, i - 1), SubSeq(s, i + 1, Len(s))>>

\* str.rstrip("\r")
RECURSIVE rstrip_cr(_)
rstrip_cr(s) ==
    IF s # <<>> /\ s[Len(s)] = "\r" THEN rstrip_cr(SubSeq(s, 1, Len(s) - 1)) ELSE s

LOWERCASE ==
    <<"a", "b", "c", "d", "e", "f", "g", "h", "i", "j", "k", "l", "m",
      "n", "o", "p", "q", "r", "s", "t", "u", "v", "w", "x", "y", "z", "U+00E9">>

UPPERCASE ==
    <<"A", "B", "C", "D", "E", "F", "G", "H", "I", "J", "K", "L", "M",
      "N", "O", "P", "Q", "R", "S", "T", "U", "V", "W", "X", "Y", "Z", "U+00C9">>

UpperChar(ch) ==
    IF \E i \in DOMAIN LOWERCASE : LOWERCASE[i] = ch
    THEN UPPERCASE[CHOOSE i \in DOMAIN LOWERCASE : LOWERCASE[i] = ch]
    ELSE ch

\* str.upper()
upper(s) == [i \in 1..Len(s) |-> UpperChar(s[i])]

DIGITS == <<"0", "1", "2", "3", "4", "5", "6", "7", "8", "9">>

IsDigit(ch) == \E i \in DOMAIN DIGITS : DIGITS[i] = ch

DigitVal(ch) == (CHOOSE i \in DOMAIN DIGITS : DIGITS[i] = ch) - 1

RECURSIVE DigitsVal(_)
DigitsVal(s) ==
    IF s = <<>> THEN 0
    ELSE LET front == SubSeq(s, 1, Len(s) - 1)
             last == s[Len(s)]
         IN IF last = "_" THEN DigitsVal(front) ELSE DigitsVal(front) * 10 + DigitVal(last)

\* the token without its sign
Unsigned(tok) == IF tok # <<>> /\ Head(tok) \in {"+", "-"} THEN Tail(tok) ELSE tok

\* int(tok) does not raise ValueError: an optional sign, then digits, single
\* underscores allowed between digits
int_ok(tok) ==
    LET b == Unsigned(tok) IN
    /\ b # <<>>
    /\ \A i \in 1..Len(b) : IsDigit(b[i]) \/ b[i] = "_"
    /\ IsDigit(b[1]) /\ IsDigit(b[Len(b)])
    /\ \A i \in 1..(Len(b) - 1) : ~(b[i] = "_" /\ b[i + 1] = "_")

\* int(tok), for a token int_ok accepts
int(tok) ==
    IF tok # <<>> /\ Head(tok) = "-" THEN 0 - DigitsVal(Unsigned(tok))
    ELSE DigitsVal(Unsigned(tok))

\* str(n) for n >= 0
RECURSIVE str(_)
str(n) == IF n < 10 THEN <<DIGITS[n + 1]>> ELSE str(n \div 10) \o <<DIGITS[(n % 10) + 1]>>

\* "\n".join(lines), each line a text
RECURSIVE join(_)
join(lines) ==
    IF lines = <<>> THEN <<>>
    ELSE IF Len(lines) = 1 THEN lines[1]
    ELSE lines[1] \o <<"\n">> \o join(Tail(lines))

\* sorted(S) for a set of integers
RECURSIVE sorted(_)
sorted(S) ==
    IF S = {} THEN <<>>
    ELSE LET m == CHOOSE x \in S : \A y \in S : x <= y IN <<m>> \o sorted(S \ {m})

\* bytes.decode("utf-8", errors="ignore"): the bytes that do not decode are
\* dropped
RECURSIVE decode_ignore(_)
decode_ignore(data) ==
    IF data = <<>> THEN [ok |-> TRUE, text |-> <<>>]
    ELSE IF Head(data) = "C3" /\ Len(data) >= 2 /\ data[2] = "A9"
         THEN [ok |-> TRUE,
               text |-> <<"U+00E9">> \o decode_ignore(SubSeq(data, 3, Len(data))).text]
         ELSE IF Head(data) \in {"C3", "A9", "FF"}
              THEN decode_ignore(Tail(data))
              ELSE [ok |-> TRUE, text |-> <<Head(data)>> \o decode_ignore(Tail(data)).text]

\* bytes.decode("utf-8"): ok is FALSE where Python raises UnicodeDecodeError
RECURSIVE decode(_)
decode(data) ==
    IF data = <<>> THEN [ok |-> TRUE, text |-> <<>>]
    ELSE IF Head(data) = "C3"
         THEN IF Len(data) >= 2 /\ data[2] = "A9"
              THEN CHOOSE y \in {[ok |-> r.ok, text |-> <<"U+00E9">> \o r.text] :
                                    r \in {decode(t) : t \in {SubSeq(data, 3, Len(data))}}} : TRUE
              ELSE [ok |-> FALSE, text |-> <<>>]
         ELSE IF Head(data) \in {"A9", "FF"}
              THEN [ok |-> FALSE, text |-> <<>>]
              ELSE CHOOSE y \in {[ok |-> r.ok, text |-> <<Head(data)>> \o r.text] :
                                    r \in {decode(t) : t \in {Tail(data)}}} : TRUE

\* runs of the character "#", each kept as one element of a text: the
\* element and the number of characters (and of bytes) it stands for
FILLER == ("#x4096" :> 4096) @@ ("#x4095" :> 4095)

\* the elements of a text that are not runs
Unfilled(text) == Cardinality({i \in DOMAIN text : text[i] \notin DOMAIN FILLER})

\* len(text.encode("utf-8", errors="ignore"))
RECURSIVE encoded_len(_)
encoded_len(text) ==
    IF text = <<>> THEN 0
    ELSE (IF Head(text) = "U+00E9" THEN 2
          ELSE IF Head(text) \in DOMAIN FILLER THEN FILLER[Head(text)]
          ELSE 1) + CHOOSE n \in {encoded_len(t) : t \in {Tail(text)}} : TRUE

\* len(data) of the bytes a read returns
RECURSIVE nbytes(_)
nbytes(data) ==
    IF data = <<>> THEN 0
    ELSE (IF Head(data) \in DOMAIN FILLER THEN FILLER[Head(data)] ELSE 1)
         + CHOOSE n \in {nbytes(t) : t \in {Tail(data)}} : TRUE

(***************************************************************************)
(* protocol.py                                                             *)
(***************************************************************************)

\* None, as a value no text equals (an f-string prints it as None)
None == <<"None">>

\* ph.hash: the credential is opaque, and only verification reads it
hash(password) == <<"argon2", password>>

SEEDED_PLAINTEXT_USERS ==
    (<<"o", "l", "i", "v", "e", "r">> :> [password |-> <<"p", "w", "1">>, role |-> "user"]) @@
    (<<"s", "a", "m">> :> [password |-> <<"p", "w", "2">>, role |-> "user"]) @@
    (<<"a", "d", "m", "i", "n">> :> [password |-> <<"a", "d", "m", "i", "n", "p", "w">>, role |-> "admin"])

USERS ==
    [u \in DOMAIN SEEDED_PLAINTEXT_USERS |->
        [pw_hash |-> hash(SEEDED_PLAINTEXT_USERS[u].password),
         role |-> SEEDED_PLAINTEXT_USERS[u].role]]

verify_password(record, password) == record.pw_hash = hash(password)

\* what a handler returns: the response text, and the session and the stores
\* as the handler leaves them
Result(response, client, g) ==
    [response |-> response, client |-> client,
     posts |-> g.posts, next_post_id |-> g.next_post_id]

ERR_NOT_LOGGED_IN == <<"ERR Not logged in", "\n">>
ERR_BAD_SYNTAX == <<"ERR BAD_SYNTAX", "\n">>
ERR_UNKNOWN_COMMAND == <<"ERR UNKNOWN_COMMAND", "\n">>
ERR_ALREADY_LOGGED_IN == <<"ERR Already logged in", "\n">>
ERR_INVALID_CREDENTIALS == <<"ERR Invalid credentials", "\n">>
ERR_EMPTY_MESSAGE == <<"ERR Empty message", "\n">>
ERR_NOT_FOUND == <<"ERR Not found", "\n">>
ERR_NOT_AUTHORIZED == <<"ERR Not authorized", "\n">>
OK_BYE == <<"OK Bye", "\n">>

\* the error require_auth returns, <<>> when it returns None
require_auth(client) == IF ~client.authenticated THEN ERR_NOT_LOGGED_IN ELSE <<>>

HELP_BODY ==
    <<<<"LOGIN <username> <password>">>,
      <<"POST <message...>">>,
      <<"LIST">>,
      <<"GET <id>">>,
      <<"DEL <id>">>,
      <<"WHOAMI">>,
      <<"HELP [command]">>,
      <<"QUIT">>,
      <<"EXAMPLES:">>,
      <<"  LOGIN oliver pw1">>,
      <<"  POST hello world">>,
      <<"  LIST">>,
      <<"  GET 1">>,
      <<"  DEL 1">>,
      <<"  WHOAMI">>,
      <<"  QUIT">>>>

HELP_DETAILS ==
    (<<"L", "O", "G", "I", "N">> :>
        <<<<"TOPIC: LOGIN">>,
          <<"Syntax: LOGIN <username> <password>">>,
          <<"Notes: Must be called before POST/LIST/GET/DEL/WHOAMI.">>>>) @@
    (<<"P", "O", "S", "T">> :>
        <<<<"TOPIC: POST">>,
          <<"Syntax: POST <message...>">>,
          <<"Notes: Author is your authenticated username; message is the rest of the line.">>>>) @@
    (<<"L", "I", "S", "T">> :>
        <<<<"TOPIC: LIST">>,
          <<"Syntax: LIST">>,
          <<"Response: OK LIST <count> followed by <count> post lines.">>>>) @@
    (<<"G", "E", "T">> :>
        <<<<"TOPIC: GET">>,
          <<"Syntax: GET <id>">>>>) @@
    (<<"D", "E", "L">> :>
        <<<<"TOPIC: DEL">>,
          <<"Syntax: DEL <id>">>,
          <<"Notes: Allowed if you are admin or you are the post author.">>>>) @@
    (<<"W", "H", "O", "A", "M", "I">> :>
        <<<<"TOPIC: WHOAMI">>,
          <<"Syntax: WHOAMI">>,
          <<"Response: OK WHOAMI <username> <role>">>>>) @@
    (<<"H", "E", "L", "P">> :>
        <<<<"TOPIC: HELP">>,
          <<"Syntax: HELP">>,
          <<"        HELP <command>">>>>) @@
    (<<"Q", "U", "I", "T">> :>
        <<<<"TOPIC: QUIT">>,
          <<"Syntax: QUIT">>,
          <<"Notes: Server will close the connection after responding.">>>>)

\* "OK HELP " + str(len(body)) + "\n" + "\n".join(body) + "\n"
help_response(body) == <<"OK HELP ">> \o str(Len(body)) \o <<"\n">> \o join(body) \o <<"\n">>

handle_help(client, rest, g) ==
    LET arg == strip(rest)
        parts == split(arg)
        cmd == upper(parts[1])
    IN  IF arg = <<>> THEN Result(help_response(HELP_BODY), client, g)
        ELSE IF Len(parts) # 1 THEN Result(ERR_BAD_SYNTAX, client, g)
        ELSE IF cmd \notin DOMAIN HELP_DETAILS THEN Result(ERR_UNKNOWN_COMMAND, client, g)
        ELSE Result(help_response(HELP_DETAILS[cmd]), client, g)

handle_whoami(client, rest, g) ==
    IF require_auth(client) # <<>> THEN Result(require_auth(client), client, g)
    ELSE IF strip(rest) # <<>> THEN Result(ERR_BAD_SYNTAX, client, g)
    ELSE Result(<<"OK WHOAMI ">> \o client.username \o <<" ", client.role, "\n">>, client, g)

\* handle_login taking the role from a third argument when one is given
handle_login_role_arg(client, rest, g) ==
    LET parts == split(rest)
        username == parts[1]
        password == parts[2]
        record == USERS[username]
        role == IF Len(parts) = 3 /\ parts[3] = <<"a", "d", "m", "i", "n">>
                THEN "admin" ELSE record.role
    IN  IF client.authenticated THEN Result(ERR_ALREADY_LOGGED_IN, client, g)
        ELSE IF Len(parts) \notin {2, 3} THEN Result(ERR_BAD_SYNTAX, client, g)
        ELSE IF username \notin DOMAIN USERS THEN Result(ERR_INVALID_CREDENTIALS, client, g)
        ELSE IF ~verify_password(record, password)
             THEN Result(ERR_INVALID_CREDENTIALS, client, g)
        ELSE Result(<<"OK Logged in as ">> \o username \o <<" (", role, ")", "\n">>,
                    [client EXCEPT !.username = username,
                                   !.role = role,
                                   !.authenticated = TRUE],
                    g)

\* handle_login without the check that the session is already logged in
handle_login_again(client, rest, g) ==
    LET parts == split(rest)
        username == parts[1]
        password == parts[2]
        record == USERS[username]
    IN  IF Len(parts) # 2 THEN Result(ERR_BAD_SYNTAX, client, g)
        ELSE IF username \notin DOMAIN USERS THEN Result(ERR_INVALID_CREDENTIALS, client, g)
        ELSE IF ~verify_password(record, password)
             THEN Result(ERR_INVALID_CREDENTIALS, client, g)
        ELSE Result(<<"OK Logged in as ">> \o username \o <<" (", record.role, ")", "\n">>,
                    [client EXCEPT !.username = username,
                                   !.role = record.role,
                                   !.authenticated = TRUE],
                    g)

\* handle_login telling an unknown username from a wrong password
handle_login_unknown_user(client, rest, g) ==
    LET parts == split(rest)
        username == parts[1]
        password == parts[2]
        record == USERS[username]
    IN  IF client.authenticated THEN Result(ERR_ALREADY_LOGGED_IN, client, g)
        ELSE IF Len(parts) # 2 THEN Result(ERR_BAD_SYNTAX, client, g)
        ELSE IF username \notin DOMAIN USERS
             THEN Result(<<"ERR Unknown user", "\n">>, client, g)
        ELSE IF ~verify_password(record, password)
             THEN Result(ERR_INVALID_CREDENTIALS, client, g)
        ELSE Result(<<"OK Logged in as ">> \o username \o <<" (", record.role, ")", "\n">>,
                    [client EXCEPT !.username = username,
                                   !.role = record.role,
                                   !.authenticated = TRUE],
                    g)

handle_login(client, rest, g) ==
    LET parts == split(rest)
        username == parts[1]
        password == parts[2]
        record == USERS[username]
    IN  IF client.authenticated THEN Result(ERR_ALREADY_LOGGED_IN, client, g)
        ELSE IF Len(parts) # 2 THEN Result(ERR_BAD_SYNTAX, client, g)
        ELSE IF username \notin DOMAIN USERS THEN Result(ERR_INVALID_CREDENTIALS, client, g)
        ELSE IF ~verify_password(record, password)
             THEN Result(ERR_INVALID_CREDENTIALS, client, g)
        ELSE Result(<<"OK Logged in as ">> \o username \o <<" (", record.role, ")", "\n">>,
                    [client EXCEPT !.username = username,
                                   !.role = record.role,
                                   !.authenticated = TRUE],
                    g)

Post(post_id, author, timestamp, message) ==
    [id |-> post_id, author |-> author, timestamp |-> timestamp, message |-> message]

\* handle_post numbering the post by the size of the store
handle_post_by_count(client, rest, g) ==
    LET post_id == Cardinality(DOMAIN g.posts) + 1
        post == Post(post_id, client.username, g.now, rest)
    IN  IF require_auth(client) # <<>> THEN Result(require_auth(client), client, g)
        ELSE IF strip(rest) = <<>> THEN Result(ERR_EMPTY_MESSAGE, client, g)
        ELSE Result(<<"OK Post ">> \o str(post_id) \o <<" created", "\n">>,
                    client,
                    [g EXCEPT !.next_post_id = g.next_post_id + 1,
                              !.posts = (post_id :> post) @@ g.posts])

\* handle_post without the test of the message
handle_post_blank(client, rest, g) ==
    LET post_id == g.next_post_id
        post == Post(post_id, client.username, g.now, rest)
    IN  IF require_auth(client) # <<>> THEN Result(require_auth(client), client, g)
        ELSE Result(<<"OK Post ">> \o str(post_id) \o <<" created", "\n">>,
                    client,
                    [g EXCEPT !.next_post_id = g.next_post_id + 1,
                              !.posts = (post_id :> post) @@ g.posts])

handle_post(client, rest, g) ==
    LET post_id == g.next_post_id
        post == Post(post_id, client.username, g.now, rest)
    IN  IF require_auth(client) # <<>> THEN Result(require_auth(client), client, g)
        ELSE IF strip(rest) = <<>> THEN Result(ERR_EMPTY_MESSAGE, client, g)
        ELSE Result(<<"OK Post ">> \o str(post_id) \o <<" created", "\n">>,
                    client,
                    [g EXCEPT !.next_post_id = g.next_post_id + 1,
                              !.posts = (post_id :> post) @@ g.posts])

\* one line of a LIST response, and the payload of a GET response
post_line(p) == str(p.id) \o <<" ">> \o p.author \o <<" ", p.timestamp, " ">> \o p.message

\* handle_list declaring the number of posts ever created
handle_list_by_counter(client, rest, g) ==
    LET ids == sorted(DOMAIN g.posts)
        lines == <<<<"OK LIST ">> \o str(g.next_post_id - 1)>> \o
                 [i \in 1..Len(ids) |-> post_line(g.posts[ids[i]])]
    IN  IF require_auth(client) # <<>> THEN Result(require_auth(client), client, g)
        ELSE IF strip(rest) # <<>> THEN Result(ERR_BAD_SYNTAX, client, g)
        ELSE Result(join(lines) \o <<"\n">>, client, g)

\* handle_list with the newest post first
handle_list_newest_first(client, rest, g) ==
    LET ids == sorted(DOMAIN g.posts)
        lines == <<<<"OK LIST ">> \o str(Cardinality(DOMAIN g.posts))>> \o
                 [i \in 1..Len(ids) |-> post_line(g.posts[ids[Len(ids) + 1 - i]])]
    IN  IF require_auth(client) # <<>> THEN Result(require_auth(client), client, g)
        ELSE IF strip(rest) # <<>> THEN Result(ERR_BAD_SYNTAX, client, g)
        ELSE Result(join(lines) \o <<"\n">>, client, g)

handle_list(client, rest, g) ==
    LET ids == sorted(DOMAIN g.posts)
        lines == <<<<"OK LIST ">> \o str(Cardinality(DOMAIN g.posts))>> \o
                 [i \in 1..Len(ids) |-> post_line(g.posts[ids[i]])]
    IN  IF require_auth(client) # <<>> THEN Result(require_auth(client), client, g)
        ELSE IF strip(rest) # <<>> THEN Result(ERR_BAD_SYNTAX, client, g)
        ELSE Result(join(lines) \o <<"\n">>, client, g)

\* handle_get checking the syntax before the authentication
handle_get_syntax_first(client, rest, g) ==
    LET parts == split(rest)
        post_id == int(parts[1])
    IN  IF Len(parts) # 1 THEN Result(ERR_BAD_SYNTAX, client, g)
        ELSE IF ~int_ok(parts[1]) THEN Result(ERR_BAD_SYNTAX, client, g)
        ELSE IF require_auth(client) # <<>> THEN Result(require_auth(client), client, g)
        ELSE IF post_id \notin DOMAIN g.posts THEN Result(ERR_NOT_FOUND, client, g)
        ELSE Result(<<"OK ">> \o post_line(g.posts[post_id]) \o <<"\n">>, client, g)

\* handle_get showing a post to its author and to an admin only
handle_get_own(client, rest, g) ==
    LET parts == split(rest)
        post_id == int(parts[1])
    IN  IF require_auth(client) # <<>> THEN Result(require_auth(client), client, g)
        ELSE IF Len(parts) # 1 THEN Result(ERR_BAD_SYNTAX, client, g)
        ELSE IF ~int_ok(parts[1]) THEN Result(ERR_BAD_SYNTAX, client, g)
        ELSE IF post_id \notin DOMAIN g.posts THEN Result(ERR_NOT_FOUND, client, g)
        ELSE IF client.role # "admin" /\ g.posts[post_id].author # client.username
             THEN Result(ERR_NOT_FOUND, client, g)
        ELSE Result(<<"OK ">> \o post_line(g.posts[post_id]) \o <<"\n">>, client, g)

handle_get(client, rest, g) ==
    LET parts == split(rest)
        post_id == int(parts[1])
    IN  IF require_auth(client) # <<>> THEN Result(require_auth(client), client, g)
        ELSE IF Len(parts) # 1 THEN Result(ERR_BAD_SYNTAX, client, g)
        ELSE IF ~int_ok(parts[1]) THEN Result(ERR_BAD_SYNTAX, client, g)
        ELSE IF post_id \notin DOMAIN g.posts THEN Result(ERR_NOT_FOUND, client, g)
        ELSE Result(<<"OK ">> \o post_line(g.posts[post_id]) \o <<"\n">>, client, g)

\* handle_del refusing unless the requester is an admin and the author
handle_del_or(client, rest, g) ==
    LET parts == split(rest)
        post_id == int(parts[1])
        post == g.posts[post_id]
    IN  IF require_auth(client) # <<>> THEN Result(require_auth(client), client, g)
        ELSE IF Len(parts) # 1 THEN Result(ERR_BAD_SYNTAX, client, g)
        ELSE IF ~int_ok(parts[1]) THEN Result(ERR_BAD_SYNTAX, client, g)
        ELSE IF post_id \notin DOMAIN g.posts THEN Result(ERR_NOT_FOUND, client, g)
        ELSE IF client.role # "admin" \/ post.author # client.username
             THEN Result(ERR_NOT_AUTHORIZED, client, g)
        ELSE Result(<<"OK Deleted ">> \o str(post_id) \o <<"\n">>,
                    client,
                    [g EXCEPT !.posts = [i \in DOMAIN g.posts \ {post_id} |-> g.posts[i]]])

\* handle_del answering OK without removing the post
handle_del_keep(client, rest, g) ==
    LET parts == split(rest)
        post_id == int(parts[1])
        post == g.posts[post_id]
    IN  IF require_auth(client) # <<>> THEN Result(require_auth(client), client, g)
        ELSE IF Len(parts) # 1 THEN Result(ERR_BAD_SYNTAX, client, g)
        ELSE IF ~int_ok(parts[1]) THEN Result(ERR_BAD_SYNTAX, client, g)
        ELSE IF post_id \notin DOMAIN g.posts THEN Result(ERR_NOT_FOUND, client, g)
        ELSE IF client.role # "admin" /\ post.author # client.username
             THEN Result(ERR_NOT_AUTHORIZED, client, g)
        ELSE Result(<<"OK Deleted ">> \o str(post_id) \o <<"\n">>, client, g)

handle_del(client, rest, g) ==
    LET parts == split(rest)
        post_id == int(parts[1])
        post == g.posts[post_id]
    IN  IF require_auth(client) # <<>> THEN Result(require_auth(client), client, g)
        ELSE IF Len(parts) # 1 THEN Result(ERR_BAD_SYNTAX, client, g)
        ELSE IF ~int_ok(parts[1]) THEN Result(ERR_BAD_SYNTAX, client, g)
        ELSE IF post_id \notin DOMAIN g.posts THEN Result(ERR_NOT_FOUND, client, g)
        ELSE IF client.role # "admin" /\ post.author # client.username
             THEN Result(ERR_NOT_AUTHORIZED, client, g)
        ELSE Result(<<"OK Deleted ">> \o str(post_id) \o <<"\n">>,
                    client,
                    [g EXCEPT !.posts = [i \in DOMAIN g.posts \ {post_id} |-> g.posts[i]]])

handle_quit(client, rest, g) ==
    IF strip(rest) # <<>> THEN Result(ERR_BAD_SYNTAX, client, g)
    ELSE Result(OK_BYE, client, g)

CMD_HELP == <<"H", "E", "L", "P">>
CMD_LOGIN == <<"L", "O", "G", "I", "N">>
CMD_POST == <<"P", "O", "S", "T">>
CMD_LIST == <<"L", "I", "S", "T">>
CMD_GET == <<"G", "E", "T">>
CMD_DEL == <<"D", "E", "L">>
CMD_WHOAMI == <<"W", "H", "O", "A", "M", "I">>
CMD_QUIT == <<"Q", "U", "I", "T">>

\* the command table with QUIT not closing
COMMANDS_quit_open ==
    (CMD_HELP :> FALSE) @@ (CMD_LOGIN :> FALSE) @@ (CMD_POST :> FALSE) @@
    (CMD_LIST :> FALSE) @@ (CMD_GET :> FALSE) @@ (CMD_DEL :> FALSE) @@
    (CMD_WHOAMI :> FALSE) @@ (CMD_QUIT :> FALSE)

\* the should_close flag of each command
COMMANDS ==
    (CMD_HELP :> FALSE) @@ (CMD_LOGIN :> FALSE) @@ (CMD_POST :> FALSE) @@
    (CMD_LIST :> FALSE) @@ (CMD_GET :> FALSE) @@ (CMD_DEL :> FALSE) @@
    (CMD_WHOAMI :> FALSE) @@ (CMD_QUIT :> TRUE)

\* the handler of each command
handler(cmd, client, rest, g) ==
    CASE cmd = CMD_HELP -> handle_help(client, rest, g)
      [] cmd = CMD_LOGIN -> handle_login(client, rest, g)
      [] cmd = CMD_POST -> handle_post(client, rest, g)
      [] cmd = CMD_LIST -> handle_list(client, rest, g)
      [] cmd = CMD_GET -> handle_get(client, rest, g)
      [] cmd = CMD_DEL -> handle_del(client, rest, g)
      [] cmd = CMD_WHOAMI -> handle_whoami(client, rest, g)
      [] cmd = CMD_QUIT -> handle_quit(client, rest, g)

\* the result of the handler, with the should_close flag; a response of <<>>
\* is None. Each local is bound through a one-element set, so that it is
\* evaluated once.
process_line(client, line, g) ==
    LET Returned(cmd, r) ==
            [response |-> r.response, should_close |-> COMMANDS[cmd], client |-> r.client,
             posts |-> r.posts, next_post_id |-> r.next_post_id]
        Dispatch(cmd, rest) ==
            IF cmd \notin DOMAIN COMMANDS
            THEN [response |-> ERR_UNKNOWN_COMMAND, should_close |-> FALSE,
                  client |-> client,
                  posts |-> g.posts, next_post_id |-> g.next_post_id]
            ELSE CHOOSE y \in {Returned(cmd, r) : r \in {handler(cmd, client, rest, g)}} : TRUE
        Cut(parts) ==
            CHOOSE y \in {Dispatch(cmd, rest) :
                             cmd \in {upper(parts[1])},
                             rest \in {IF Len(parts) > 1 THEN parts[2] ELSE <<>>}} : TRUE
    IN  IF line = <<>>
        THEN [response |-> <<>>, should_close |-> FALSE, client |-> client,
              posts |-> g.posts, next_post_id |-> g.next_post_id]
        ELSE CHOOSE y \in {Cut(parts) : parts \in {split1(line, " ")}} : TRUE

(***************************************************************************)
(* The byte chunks a read may return                                       *)
(***************************************************************************)

IN_LOGIN_OLIVER == <<"L", "O", "G", "I", "N", " ", "o", "l", "i", "v", "e", "r", " ", "p", "w", "1", "\n">>

IN_LOGIN_SAM == <<"l", "o", "g", "i", "n", " ", "s", "a", "m", " ", "p", "w", "2", "\r", "\n">>

IN_LOGIN_ADMIN == <<"L", "O", "G", "I", "N", " ", "a", "d", "m", "i", "n", " ", "a", "d", "m", "i", "n", "p", "w", "\n">>

IN_LOGIN_SPOOF == <<"L", "O", "G", "I", "N", " ", "s", "a", "m", " ", "a", "d", "m", "i", "n", "\n">>

IN_LOGIN_UNKNOWN == <<"L", "O", "G", "I", "N", " ", "b", "o", "b", " ", "p", "w", "1", "\n">>

IN_LOGIN_ROLE_ARG == <<"L", "O", "G", "I", "N", " ", "s", "a", "m", " ", "p", "w", "2", " ", "a", "d", "m", "i", "n", "\n">>

IN_LOGIN_NO_PASSWORD == <<"L", "O", "G", "I", "N", " ", "s", "a", "m", "\n">>

IN_LOGIN_TWO_FAILURES == <<"L", "O", "G", "I", "N", " ", "b", "o", "b", " ", "p", "w", "2", "\n", "L", "O", "G", "I", "N", " ", "s", "a", "m", " ", "p", "w", "1", "\n">>

IN_LOGIN_THEN_WHOAMI == <<"L", "O", "G", "I", "N", " ", "o", "l", "i", "v", "e", "r", " ", "p", "w", "1", "\n", "W", "H", "O", "A", "M", "I", "\n">>

IN_POST == <<"P", "O", "S", "T", " ", " ", "a", " ", "b", " ", "\n">>

IN_POST_CR == <<"P", "O", "S", "T", " ", "x", "\r", "y", "\n">>

IN_POST_UTF8 == <<"P", "O", "S", "T", " ", "C3", "A9", "\n">>

IN_POST_EMPTY == <<"P", "O", "S", "T", " ", " ", "\n">>

IN_POST_NO_ARGS == <<"P", "O", "S", "T", "\n">>

IN_LIST == <<"L", "I", "S", "T", "\n">>

IN_LIST_ARGS == <<"L", "I", "S", "T", " ", "x", "\n">>

IN_GET_1 == <<"G", "E", "T", " ", "1", "\n">>

IN_GET_2 == <<"G", "E", "T", " ", "2", "\n">>

IN_GET_BAD == <<"G", "E", "T", " ", "x", "\n">>

IN_GET_NO_ARGS == <<"G", "E", "T", "\n">>

IN_DEL_1 == <<"D", "E", "L", " ", "1", "\n">>

IN_DEL_2 == <<"D", "E", "L", " ", " ", "0", "2", " ", "\n">>

IN_DEL_BAD == <<"D", "E", "L", " ", "1", " ", "2", "\n">>

IN_DEL_NO_ARGS == <<"D", "E", "L", "\n">>

IN_WHOAMI == <<"W", "H", "O", "A", "M", "I", "\n">>

IN_WHOAMI_ARGS == <<"w", "h", "o", "a", "m", "i", " ", "x", "\n">>

\* a command in mixed case, and commands followed by a tab
IN_WHOAMI_MIXED == <<"W", "h", "o", "A", "m", "I", "\n">>

IN_POST_TAB == <<"P", "O", "S", "T", "\t", "h", "i", "\n">>

IN_HELP == <<"H", "E", "L", "P", "\n">>

IN_HELP_DEL == <<"H", "E", "L", "P", " ", "d", "e", "l", "\n">>

IN_HELP_GET == <<"H", "E", "L", "P", " ", " ", "G", "E", "T", " ", "\n">>

\* HELP with each topic of the details table
IN_HELP_TOPICS == {<<"H", "E", "L", "P", " ">> \o topic \o <<"\n">> : topic \in DOMAIN HELP_DETAILS}

IN_HELP_ARGS == <<"H", "E", "L", "P", " ", "a", " ", "b", "\n">>

IN_HELP_UNKNOWN_TOPIC == <<"H", "E", "L", "P", " ", "f", "o", "o", "\n">>

IN_QUIT == <<"Q", "U", "I", "T", "\n">>

IN_QUIT_ARGS == <<"Q", "U", "I", "T", " ", "n", "o", "w", "\n">>

IN_UNKNOWN == <<"F", "O", "O", "\n">>

IN_UNKNOWN_THEN_PARTIAL == <<"F", "O", "O", " ", "1", "\n", "G", "E">>

IN_PARTIAL_REST == <<"T", " ", "x", "\n">>

IN_EMPTY_LINE == <<"\r", "\n">>

\* 4096 bytes "#" without a line feed
IN_FILL == <<"#x4096">>

\* 4095 bytes "#" and a line feed
IN_FILL_LINE == <<"#x4095", "\n">>

\* the end of a line, and a short complete line
IN_LF_LIST == <<"\n", "L", "I", "S", "T", "\n">>

\* one line feed
IN_LF == <<"\n">>

\* two empty lines, one ended by CR LF, and a short line
IN_EMPTY_THEN_SHORT == <<"\r", "\n", "\n", "x", "\n">>

\* QUIT with a POST pipelined behind it
IN_QUIT_THEN_POST == <<"Q", "U", "I", "T", "\n", "P", "O", "S", "T", " ", "x", "\n">>

\* a complete POST line followed by a byte that is not UTF-8
IN_POST_THEN_BAD == <<"P", "O", "S", "T", " ", "x", "\n", "FF">>

\* two lines in one read, the second showing what the first did
IN_POST_THEN_LIST == <<"P", "O", "S", "T", " ", "x", "\n", "L", "I", "S", "T", "\r", "\n">>

\* two short lines in one read
IN_TWO_SHORT == <<"x", "\n", "y", "\n">>

\* a POST and the GET of post 1 in one read: the payload with spaces in front,
\* inside and behind; the lines ended by CR LF; the payload ending in a
\* carriage return and the line ended by CR LF
IN_POST_SPACES_GET ==
    <<"P", "O", "S", "T", " ", " ", "a", " ", " ", "b", " ", "\n", "G", "E", "T", " ", "1", "\n">>

IN_POST_CRLF_GET ==
    <<"P", "O", "S", "T", " ", "a", " ", "\r", "\n", "G", "E", "T", " ", "1", "\r", "\n">>

IN_POST_CRCR_GET ==
    <<"P", "O", "S", "T", " ", "a", "\r", "\r", "\n", "G", "E", "T", " ", "1", "\n">>

IN_BAD_UTF8 == <<"FF", "\n">>

IN_EOF == <<>>

\* reads of the runs about the Post Store
DataPosts ==
    {IN_LOGIN_OLIVER,
     IN_LOGIN_SAM,
     IN_LOGIN_ADMIN,
     IN_POST,
     IN_POST_EMPTY,
     IN_GET_1,
     IN_DEL_1,
     IN_DEL_2,
     IN_LIST,
     IN_QUIT}

\* reads of the runs about LOGIN and the session
DataLogin ==
    {IN_LOGIN_OLIVER,
     IN_LOGIN_SAM,
     IN_LOGIN_ADMIN,
     IN_LOGIN_SPOOF,
     IN_LOGIN_UNKNOWN,
     IN_LOGIN_ROLE_ARG,
     IN_LOGIN_NO_PASSWORD,
     IN_LOGIN_TWO_FAILURES,
     IN_LOGIN_THEN_WHOAMI,
     IN_WHOAMI,
     IN_POST,
     IN_EOF}

\* reads of the runs about commands sent before LOGIN
DataAuth ==
    {IN_LOGIN_OLIVER,
     IN_POST,
     IN_POST_EMPTY,
     IN_POST_NO_ARGS,
     IN_LIST,
     IN_LIST_ARGS,
     IN_GET_1,
     IN_GET_BAD,
     IN_GET_NO_ARGS,
     IN_DEL_1,
     IN_DEL_BAD,
     IN_DEL_NO_ARGS,
     IN_WHOAMI,
     IN_WHOAMI_ARGS,
     IN_BAD_UTF8}

\* reads of the runs about LIST and HELP responses
DataFraming ==
    {IN_LOGIN_OLIVER,
     IN_POST,
     IN_POST_CR,
     IN_POST_UTF8,
     IN_DEL_1,
     IN_LIST,
     IN_HELP,
     IN_HELP_DEL,
     IN_HELP_GET,
     IN_HELP_UNKNOWN_TOPIC} \cup IN_HELP_TOPICS

\* reads of the runs about the buffer cap
DataCap ==
    {IN_LOGIN_OLIVER,
     IN_FILL,
     IN_FILL_LINE,
     IN_LF,
     IN_LF_LIST}

\* reads of the runs about connections that end
DataConn ==
    {IN_LOGIN_OLIVER,
     IN_POST,
     IN_GET_BAD,
     IN_UNKNOWN,
     IN_LIST,
     IN_QUIT,
     IN_QUIT_THEN_POST,
     IN_POST_THEN_BAD,
     IN_TWO_SHORT,
     IN_BAD_UTF8,
     IN_EOF}

\* reads of the runs about a peer that does not read its responses
DataLive ==
    {IN_WHOAMI,
     IN_TWO_SHORT,
     IN_QUIT}

\* reads of the runs about pipelined and fragmented lines
DataPipeline ==
    {IN_LOGIN_THEN_WHOAMI,
     IN_POST_THEN_LIST,
     IN_POST_UTF8,
     IN_UNKNOWN_THEN_PARTIAL,
     IN_PARTIAL_REST,
     IN_TWO_SHORT}

\* reads of the runs about a post read back
DataRoundTrip ==
    {IN_LOGIN_OLIVER,
     IN_LOGIN_SAM,
     IN_POST_SPACES_GET,
     IN_POST_CRLF_GET,
     IN_POST_CRCR_GET,
     IN_DEL_1}

\* reads of the runs about the choice of the handler
DataDispatch ==
    {IN_LOGIN_SAM,
     IN_WHOAMI_MIXED,
     IN_WHOAMI_ARGS,
     IN_POST,
     IN_POST_TAB,
     IN_LIST,
     IN_UNKNOWN,
     IN_EMPTY_LINE,
     IN_LF,
     IN_LF_LIST,
     IN_EMPTY_THEN_SHORT,
     IN_QUIT}

\* reads of the runs about lines rejected as syntax errors
DataSyntax ==
    {IN_LOGIN_OLIVER,
     IN_LOGIN_NO_PASSWORD,
     IN_POST,
     IN_LIST_ARGS,
     IN_GET_BAD,
     IN_GET_NO_ARGS,
     IN_DEL_BAD,
     IN_WHOAMI_ARGS,
     IN_HELP_ARGS,
     IN_HELP_UNKNOWN_TOPIC,
     IN_QUIT_ARGS,
     IN_UNKNOWN,
     IN_UNKNOWN_THEN_PARTIAL,
     IN_PARTIAL_REST,
     IN_EMPTY_LINE}

(***************************************************************************)
(* server.py                                                               *)
(***************************************************************************)

MAX_BUFFER_BYTES == 65536

\* the bufsize of sock.recv
RECV_SIZE == 4096

\* the sockets a run may accept, in the order accept() returns them
Socks == <<"c1", "c2">>

\* what time.strftime may return when a post is created
Clock == {"2026-11-04T10:00:00"}

\* bounds of the model: the posts created in a run, the characters a
\* connection may leave buffered without a line feed (runs of "#" apart, which
\* the buffer cap bounds), and the response writes of one read among which
\* one may fail
MaxPosts == 2

MaxPending == 3

MaxWrites == 2

\* the responses the socket buffers of one connection hold while its peer does
\* not read (the kernel sizes them in bytes)
SndBuf == 2

\* the most elements of a text that one recv returns in the runs with the
\* terminal client
MaxChunk == 40

VARIABLES
    clients,        \* socket -> ClientState, the live connections
    closed,         \* the sockets close_client has closed
    posts,          \* post id -> Post
    next_post_id,
    last,           \* the last call of the reactor: its socket, the bytes read,
                    \* what it wrote and, per line, the state before and after
    hist,           \* the ids answered by POST and by DEL since the start, in order
    reactor,        \* where the loop of main is: "select" in the readiness wait,
                    \* "sendall" inside a response write that has not returned,
                    \* "stopped" once an exception has left main
    inflight,       \* socket -> the bytes its peer has sent and the server has
                    \* not read yet (no entry when there are none)
    unread,         \* socket -> the responses written to it that its peer has
                    \* not read yet, in the runs that follow the socket buffers
    term            \* the terminal client of client.py, in the runs where it is
                    \* the peer of the first socket: where it is, its buffer
                    \* and the bytes on the way between it and the server

vars == <<clients, closed, posts, next_post_id, last, hist, reactor, inflight, unread, term>>

\* ClientState.__init__ giving every new connection the session of oliver
ClientState_logged_in ==
    [buffer |-> <<>>, username |-> <<"o", "l", "i", "v", "e", "r">>, role |-> "user",
     authenticated |-> TRUE]

\* ClientState.__init__
ClientState ==
    [buffer |-> <<>>, username |-> None, role |-> "None", authenticated |-> FALSE]

\* the session of a client: what LOGIN sets
Session(client) ==
    [username |-> client.username, role |-> client.role,
     authenticated |-> client.authenticated]

\* the loop of handle_client_socket leaving after the first line of the buffer
lines_loop_one(st, wfail) ==
    LET g == [posts |-> st.posts, next_post_id |-> st.next_post_id, now |-> st.now]
        Iteration(line, client, r) ==
            LET wrote == r.response # <<>>
                writes == st.writes + (IF wrote THEN 1 ELSE 0)
                failed == wrote /\ writes = wfail
                entry == [line |-> line,
                          before |-> [client |-> client, posts |-> st.posts,
                                      next_post_id |-> st.next_post_id],
                          after |-> [client |-> r.client, posts |-> r.posts,
                                     next_post_id |-> r.next_post_id],
                          response |-> r.response,
                          should_close |-> r.should_close,
                          sent |-> wrote /\ ~failed]
                st1 == [st EXCEPT !.client = r.client, !.posts = r.posts,
                                  !.next_post_id = r.next_post_id,
                                  !.trace = Append(st.trace, entry),
                                  !.writes = writes]
            IN  IF failed THEN [st1 EXCEPT !.alive = FALSE, !.outcome = "send_error"]
                ELSE IF r.should_close THEN [st1 EXCEPT !.alive = FALSE, !.outcome = "closed"]
                ELSE st1
        Line(line, client) ==
            IF line = <<>> THEN [st EXCEPT !.client = client]
            ELSE CHOOSE y \in {Iteration(line, client, r) :
                                  r \in {process_line(client, line, g)}} : TRUE
        Cut(parts) ==
            CHOOSE y \in {Line(line, client) :
                             line \in {rstrip_cr(parts[1])},
                             client \in {[st.client EXCEPT !.buffer = parts[2]]}} : TRUE
    IN  IF IndexOf(st.client.buffer, "\n") = 0 THEN st
        ELSE CHOOSE y \in {Cut(parts) : parts \in {split1(st.client.buffer, "\n")}} : TRUE

\* the loop of handle_client_socket leaving at an empty line
RECURSIVE lines_loop_break(_, _)
lines_loop_break(st, wfail) ==
    LET g == [posts |-> st.posts, next_post_id |-> st.next_post_id, now |-> st.now]
        \* the rest of the iteration, r being what process_line returned
        Iteration(line, client, r) ==
            LET wrote == r.response # <<>>
                writes == st.writes + (IF wrote THEN 1 ELSE 0)
                failed == wrote /\ writes = wfail
                entry == [line |-> line,
                          before |-> [client |-> client, posts |-> st.posts,
                                      next_post_id |-> st.next_post_id],
                          after |-> [client |-> r.client, posts |-> r.posts,
                                     next_post_id |-> r.next_post_id],
                          response |-> r.response,
                          should_close |-> r.should_close,
                          sent |-> wrote /\ ~failed]
                st1 == [st EXCEPT !.client = r.client, !.posts = r.posts,
                                  !.next_post_id = r.next_post_id,
                                  !.trace = Append(st.trace, entry),
                                  !.writes = writes]
            IN  IF failed THEN [st1 EXCEPT !.alive = FALSE, !.outcome = "send_error"]
                ELSE IF r.should_close THEN [st1 EXCEPT !.alive = FALSE, !.outcome = "closed"]
                ELSE CHOOSE y \in {lines_loop_break(s, wfail) : s \in {st1}} : TRUE
        \* raw_line, client.buffer = client.buffer.split("\n", 1) and the test
        \* of the line
        Line(line, client) ==
            IF line = <<>>
            THEN [st EXCEPT !.client = client]
            ELSE CHOOSE y \in {Iteration(line, client, r) :
                                  r \in {process_line(client, line, g)}} : TRUE
        Cut(parts) ==
            CHOOSE y \in {Line(line, client) :
                             line \in {rstrip_cr(parts[1])},
                             client \in {[st.client EXCEPT !.buffer = parts[2]]}} : TRUE
    IN  IF IndexOf(st.client.buffer, "\n") = 0 THEN st
        ELSE CHOOSE y \in {Cut(parts) : parts \in {split1(st.client.buffer, "\n")}} : TRUE

\* the loop of handle_client_socket undoing the effect of a line whose
\* response write fails
RECURSIVE lines_loop_rollback(_, _)
lines_loop_rollback(st, wfail) ==
    LET g == [posts |-> st.posts, next_post_id |-> st.next_post_id, now |-> st.now]
        \* the rest of the iteration, r being what process_line returned
        Iteration(line, client, r) ==
            LET wrote == r.response # <<>>
                writes == st.writes + (IF wrote THEN 1 ELSE 0)
                failed == wrote /\ writes = wfail
                entry == [line |-> line,
                          before |-> [client |-> client, posts |-> st.posts,
                                      next_post_id |-> st.next_post_id],
                          after |-> [client |-> r.client, posts |-> r.posts,
                                     next_post_id |-> r.next_post_id],
                          response |-> r.response,
                          should_close |-> r.should_close,
                          sent |-> wrote /\ ~failed]
                st1 == [st EXCEPT !.client = r.client, !.posts = r.posts,
                                  !.next_post_id = r.next_post_id,
                                  !.trace = Append(st.trace, entry),
                                  !.writes = writes]
            IN  IF failed THEN [st1 EXCEPT !.alive = FALSE, !.outcome = "send_error",
                                           !.posts = st.posts,
                                           !.next_post_id = st.next_post_id]
                ELSE IF r.should_close THEN [st1 EXCEPT !.alive = FALSE, !.outcome = "closed"]
                ELSE CHOOSE y \in {lines_loop_rollback(s, wfail) : s \in {st1}} : TRUE
        \* raw_line, client.buffer = client.buffer.split("\n", 1) and the test
        \* of the line
        Line(line, client) ==
            IF line = <<>>
            THEN CHOOSE y \in {lines_loop_rollback(s, wfail) :
                                  s \in {[st EXCEPT !.client = client]}} : TRUE
            ELSE CHOOSE y \in {Iteration(line, client, r) :
                                  r \in {process_line(client, line, g)}} : TRUE
        Cut(parts) ==
            CHOOSE y \in {Line(line, client) :
                             line \in {rstrip_cr(parts[1])},
                             client \in {[st.client EXCEPT !.buffer = parts[2]]}} : TRUE
    IN  IF IndexOf(st.client.buffer, "\n") = 0 THEN st
        ELSE CHOOSE y \in {Cut(parts) : parts \in {split1(st.client.buffer, "\n")}} : TRUE

\* the while loop of handle_client_socket over the lines of the buffer.
\* st.alive is FALSE once close_client was called; the write numbered wfail
\* (counted within this call) raises ConnectionError. Each local is bound
\* through a one-element set, so that it is evaluated once.
RECURSIVE lines_loop(_, _)
lines_loop(st, wfail) ==
    LET g == [posts |-> st.posts, next_post_id |-> st.next_post_id, now |-> st.now]
        \* the rest of the iteration, r being what process_line returned
        Iteration(line, client, r) ==
            LET wrote == r.response # <<>>
                writes == st.writes + (IF wrote THEN 1 ELSE 0)
                failed == wrote /\ writes = wfail
                entry == [line |-> line,
                          before |-> [client |-> client, posts |-> st.posts,
                                      next_post_id |-> st.next_post_id],
                          after |-> [client |-> r.client, posts |-> r.posts,
                                     next_post_id |-> r.next_post_id],
                          response |-> r.response,
                          should_close |-> r.should_close,
                          sent |-> wrote /\ ~failed]
                st1 == [st EXCEPT !.client = r.client, !.posts = r.posts,
                                  !.next_post_id = r.next_post_id,
                                  !.trace = Append(st.trace, entry),
                                  !.writes = writes]
            IN  IF failed THEN [st1 EXCEPT !.alive = FALSE, !.outcome = "send_error"]
                ELSE IF r.should_close THEN [st1 EXCEPT !.alive = FALSE, !.outcome = "closed"]
                ELSE CHOOSE y \in {lines_loop(s, wfail) : s \in {st1}} : TRUE
        \* raw_line, client.buffer = client.buffer.split("\n", 1) and the test
        \* of the line
        Line(line, client) ==
            IF line = <<>>
            THEN CHOOSE y \in {lines_loop(s, wfail) :
                                  s \in {[st EXCEPT !.client = client]}} : TRUE
            ELSE CHOOSE y \in {Iteration(line, client, r) :
                                  r \in {process_line(client, line, g)}} : TRUE
        Cut(parts) ==
            CHOOSE y \in {Line(line, client) :
                             line \in {rstrip_cr(parts[1])},
                             client \in {[st.client EXCEPT !.buffer = parts[2]]}} : TRUE
    IN  IF IndexOf(st.client.buffer, "\n") = 0 THEN st
        ELSE CHOOSE y \in {Cut(parts) : parts \in {split1(st.client.buffer, "\n")}} : TRUE

\* handle_client_socket refusing a buffer of exactly MAX_BUFFER_BYTES bytes
serve_cap_inclusive(client, data, wfail, now) ==
    LET st0 == [client |-> client, posts |-> posts, next_post_id |-> next_post_id,
                now |-> now, trace |-> <<>>, writes |-> 0, alive |-> TRUE,
                outcome |-> "served", notice |-> FALSE]
        text == decode(data).text
        buffered == [client EXCEPT !.buffer = client.buffer \o text]
    IN  IF data = <<>> THEN [st0 EXCEPT !.alive = FALSE, !.outcome = "disconnected"]
        ELSE IF ~decode(data).ok THEN [st0 EXCEPT !.alive = FALSE, !.outcome = "bad_data"]
        ELSE IF encoded_len(buffered.buffer) >= MAX_BUFFER_BYTES
             THEN [st0 EXCEPT !.client = buffered, !.alive = FALSE,
                              !.outcome = "too_long", !.notice = (wfail # 1)]
        ELSE CHOOSE y \in {lines_loop(s, wfail) :
                              s \in {[st0 EXCEPT !.client = buffered]}} : TRUE

\* handle_client_socket testing the size of the buffer before the text of the
\* read is appended
serve_cap_before_read(client, data, wfail, now) ==
    LET st0 == [client |-> client, posts |-> posts, next_post_id |-> next_post_id,
                now |-> now, trace |-> <<>>, writes |-> 0, alive |-> TRUE,
                outcome |-> "served", notice |-> FALSE]
        text == decode(data).text
        buffered == [client EXCEPT !.buffer = client.buffer \o text]
    IN  IF data = <<>> THEN [st0 EXCEPT !.alive = FALSE, !.outcome = "disconnected"]
        ELSE IF ~decode(data).ok THEN [st0 EXCEPT !.alive = FALSE, !.outcome = "bad_data"]
        ELSE IF encoded_len(client.buffer) > MAX_BUFFER_BYTES
             THEN [st0 EXCEPT !.client = buffered, !.alive = FALSE,
                              !.outcome = "too_long", !.notice = (wfail # 1)]
        ELSE CHOOSE y \in {lines_loop(s, wfail) :
                              s \in {[st0 EXCEPT !.client = buffered]}} : TRUE

\* handle_client_socket from the read on, the module globals of protocol.py
\* being g.posts and g.next_post_id: what it leaves of the client and the
\* stores
serve_in(client, g, data, wfail, now) ==
    LET st0 == [client |-> client, posts |-> g.posts, next_post_id |-> g.next_post_id,
                now |-> now, trace |-> <<>>, writes |-> 0, alive |-> TRUE,
                outcome |-> "served", notice |-> FALSE]
        text == decode(data).text
        buffered == [client EXCEPT !.buffer = client.buffer \o text]
    IN  IF data = <<>> THEN [st0 EXCEPT !.alive = FALSE, !.outcome = "disconnected"]
        ELSE IF ~decode(data).ok THEN [st0 EXCEPT !.alive = FALSE, !.outcome = "bad_data"]
        ELSE IF encoded_len(buffered.buffer) > MAX_BUFFER_BYTES
             THEN [st0 EXCEPT !.client = buffered, !.alive = FALSE,
                              !.outcome = "too_long", !.notice = (wfail # 1)]
        ELSE CHOOSE y \in {lines_loop(s, wfail) :
                              s \in {[st0 EXCEPT !.client = buffered]}} : TRUE

\* handle_client_socket from the read on, in the current state
serve(client, data, wfail, now) ==
    serve_in(client, [posts |-> posts, next_post_id |-> next_post_id], data, wfail, now)

\* successive calls of handle_client_socket on one connection, one per read,
\* every write completing: what they leave, and all they dispatched
RECURSIVE Feed(_, _, _, _)
Feed(client, g, reads, now) ==
    IF reads = <<>>
    THEN [client |-> client, posts |-> g.posts, next_post_id |-> g.next_post_id,
          trace |-> <<>>, alive |-> TRUE]
    ELSE LET Then(st) ==
                 IF st.alive
                 THEN LET rest == Feed(st.client,
                                       [posts |-> st.posts,
                                        next_post_id |-> st.next_post_id],
                                       Tail(reads), now)
                      IN  [rest EXCEPT !.trace = st.trace \o rest.trace]
                 ELSE [client |-> st.client, posts |-> st.posts,
                       next_post_id |-> st.next_post_id, trace |-> st.trace,
                       alive |-> FALSE]
         IN  CHOOSE y \in {Then(st) : st \in {serve_in(client, g, Head(reads), 0, now)}} : TRUE

\* close_client leaving the client in clients
close_client_keep(sock) == clients

\* del clients[sock]
close_client(sock) == [s \in DOMAIN clients \ {sock} |-> clients[s]]

\* the id in "OK Post <id> created\n" and in "OK Deleted <id>\n"
PostedId(response) == int(SubSeq(response, 2, Len(response) - 2))

DeletedId(response) == int(SubSeq(response, 2, Len(response) - 1))

IsPosted(response) == response # <<>> /\ Head(response) = "OK Post "

IsDeleted(response) == response # <<>> /\ Head(response) = "OK Deleted "

\* the command token and the argument payload of a line, as process_line cuts it
CmdOf(line) == upper(split1(line, " ")[1])

ArgOf(line) == IF Len(split1(line, " ")) > 1 THEN split1(line, " ")[2] ELSE <<>>

\* hist extended by what the responses of a trace report: the id of each POST
\* answered OK and of each DEL answered OK, in order, and for the ids posted
\* and not deleted the author, time and payload of the POST request
RECURSIVE Record(_, _, _)
Record(h, trace, now) ==
    IF trace = <<>> THEN h
    ELSE LET e == Head(trace)
             h1 == IF IsPosted(e.response)
                   THEN [h EXCEPT !.posted = Append(h.posted, PostedId(e.response)),
                                  !.shown = (PostedId(e.response) :>
                                                [author |-> e.before.client.username,
                                                 timestamp |-> now,
                                                 message |-> ArgOf(e.line)]) @@ h.shown]
                   ELSE IF IsDeleted(e.response)
                   THEN [h EXCEPT !.deleted = Append(h.deleted, DeletedId(e.response)),
                                  !.shown = [i \in DOMAIN h.shown \ {DeletedId(e.response)}
                                                |-> h.shown[i]]]
                   ELSE h
         IN Record(h1, Tail(trace), now)

Init ==
    /\ clients = <<>>
    /\ closed = {}
    /\ posts = <<>>
    /\ next_post_id = 1
    /\ last = [sock |-> "none", data |-> <<>>, outcome |-> "started", trace |-> <<>>,
               notice |-> FALSE]
    /\ hist = [posted |-> <<>>, deleted |-> <<>>, shown |-> <<>>]
    /\ reactor = "select"
    /\ inflight = <<>>
    /\ unread = <<>>
    /\ term = [pc |-> "connect", user_input |-> <<>>, buf |-> <<>>, lines |-> <<>>,
               want |-> 0, printed |-> <<>>, to_server |-> <<>>, to_client |-> <<>>,
               written |-> <<>>]

\* main: server_sock.accept() and clients[new_sock] = ClientState(new_sock, addr)
NewConnection(sock) ==
    /\ reactor = "select"
    /\ sock \notin DOMAIN clients
    /\ sock \notin closed
    /\ \A i \in DOMAIN Socks :
          Socks[i] = sock => \A j \in 1..(i - 1) : Socks[j] \in DOMAIN clients \cup closed
    /\ clients' = (sock :> ClientState) @@ clients
    /\ last' = [sock |-> sock, data |-> <<>>, outcome |-> "accepted", trace |-> <<>>,
                notice |-> FALSE]
    /\ UNCHANGED <<closed, posts, next_post_id, hist, reactor>>

\* main: handle_client_socket(sock) for a readable socket whose read returns
\* data (no bytes when the peer closed or the read raised ConnectionError);
\* of the response writes of the call, the one numbered wfail raises
\* ConnectionError (none when wfail is 0)
Call(sock, data, now) ==
    /\ reactor = "select"
    /\ sock \in DOMAIN clients
    /\ nbytes(data) <= RECV_SIZE
    /\ \E st0 \in {serve(clients[sock], data, 0, now)} :
       \E wfail \in 0..(st0.writes + (IF st0.outcome = "too_long" THEN 1 ELSE 0)) :
       \E st \in {IF wfail = 0 THEN st0 ELSE serve(clients[sock], data, wfail, now)} :
       /\ wfail <= MaxWrites
       /\ st.next_post_id <= MaxPosts + 1
       /\ st.alive => Unfilled(st.client.buffer) <= MaxPending
       /\ clients' = IF st.alive THEN [clients EXCEPT ![sock] = st.client]
                     ELSE close_client(sock)
       /\ closed' = IF st.alive THEN closed ELSE closed \cup {sock}
       /\ posts' = st.posts
       /\ next_post_id' = st.next_post_id
       /\ last' = [sock |-> sock, data |-> data, outcome |-> st.outcome,
                   trace |-> st.trace, notice |-> st.notice]
       /\ hist' = Record(hist, st.trace, now)
       /\ UNCHANGED reactor

\* the two steps of the loop of main in the runs where a peer sends and the
\* server reads in one step and every response is read as it is written
Accept(sock) == NewConnection(sock) /\ UNCHANGED <<inflight, unread, term>>

HandleClientSocket(sock, data, now) ==
    Call(sock, data, now) /\ UNCHANGED <<inflight, unread, term>>

\* main: handle_client_socket(sock) for a readable socket whose read raises an
\* OSError that is not a ConnectionError (TimeoutError for ETIMEDOUT, OSError
\* for EHOSTUNREACH): the except clause of the read does not catch it, nor
\* does main, whose finally clause closes every client before the exception
\* leaves it
RecvRaises(sock) ==
    /\ reactor = "select"
    /\ sock \in DOMAIN clients
    /\ clients' = <<>>
    /\ closed' = closed \cup DOMAIN clients
    /\ last' = [sock |-> sock, data |-> <<>>, outcome |-> "raised", trace |-> <<>>,
                notice |-> FALSE]
    /\ reactor' = "stopped"
    /\ UNCHANGED <<posts, next_post_id, hist, inflight, unread, term>>

\* main: server_sock.accept(), in the runs that follow the socket buffers
AcceptLive(sock) ==
    /\ NewConnection(sock)
    /\ unread' = (sock :> 0) @@ unread
    /\ UNCHANGED <<inflight, term>>

\* a peer sends data on its connection; the bytes wait in the socket until the
\* server reads them
Send(sock, data) ==
    /\ sock \in DOMAIN clients
    /\ sock \notin DOMAIN inflight
    /\ inflight' = (sock :> data) @@ inflight
    /\ UNCHANGED <<clients, closed, posts, next_post_id, last, hist, reactor, unread, term>>

\* a peer reads the responses that wait for it
PeerReads(sock) ==
    /\ sock \in DOMAIN unread
    /\ unread[sock] > 0
    /\ ~(reactor = "sendall" /\ last.sock = sock)
    /\ unread' = [unread EXCEPT ![sock] = 0]
    /\ UNCHANGED <<clients, closed, posts, next_post_id, last, hist, reactor, inflight, term>>

\* the responses of a call that sendall wrote
Written(trace) == Cardinality({i \in DOMAIN trace : trace[i].sent})

\* main: select returns sock, which has bytes waiting, and
\* handle_client_socket(sock) reads them; the socket buffers take every
\* response of the call
Recv(sock, now) ==
    /\ sock \in DOMAIN inflight
    /\ Call(sock, inflight[sock], now)
    /\ unread[sock] + Written(last'.trace) <= SndBuf
    /\ inflight' = [t \in DOMAIN inflight \ {sock} |-> inflight[t]]
    /\ unread' = IF sock \in DOMAIN clients'
                 THEN [unread EXCEPT ![sock] = @ + Written(last'.trace)]
                 ELSE [t \in DOMAIN unread \ {sock} |-> unread[t]]
    /\ UNCHANGED term

\* main: handle_client_socket(sock) with a response write that does not
\* return: the socket is blocking (the server never calls setblocking or
\* settimeout), its peer has not read the responses before this one and the
\* socket buffers are full. The lines up to the one this write answers have
\* taken effect.
SendallBlocks(sock, now) ==
    /\ reactor = "select"
    /\ sock \in DOMAIN inflight
    /\ \E st0 \in {serve(clients[sock], inflight[sock], 0, now)} :
       \E k \in {SndBuf - unread[sock] + 1} :
       \E st \in {serve(clients[sock], inflight[sock], k, now)} :
       /\ k <= st0.writes
       /\ st.next_post_id <= MaxPosts + 1
       /\ clients' = [clients EXCEPT ![sock] = st.client]
       /\ posts' = st.posts
       /\ next_post_id' = st.next_post_id
       /\ last' = [sock |-> sock, data |-> inflight[sock], outcome |-> "blocked",
                   trace |-> st.trace, notice |-> FALSE]
       /\ hist' = Record(hist, st.trace, now)
       /\ reactor' = "sendall"
       /\ inflight' = [t \in DOMAIN inflight \ {sock} |-> inflight[t]]
       /\ unread' = [unread EXCEPT ![sock] = SndBuf]
       /\ UNCHANGED <<closed, term>>

\* the peer reads the responses that wait for it and the blocked sendall
\* returns: handle_client_socket goes on with should_close and the rest of
\* the buffer
SendallReturns(now) ==
    /\ reactor = "sendall"
    /\ \E sock \in {last.sock} :
       \E n \in {Len(last.trace)} :
       \E st \in {IF last.trace[n].should_close
                   THEN [client |-> clients[sock], posts |-> posts,
                         next_post_id |-> next_post_id, trace |-> <<>>, writes |-> 0,
                         alive |-> FALSE, outcome |-> "closed"]
                   ELSE lines_loop([client |-> clients[sock], posts |-> posts,
                                    next_post_id |-> next_post_id, now |-> now,
                                    trace |-> <<>>, writes |-> 0, alive |-> TRUE,
                                    outcome |-> "served", notice |-> FALSE], 0)} :
       /\ st.next_post_id <= MaxPosts + 1
       /\ 1 + st.writes <= SndBuf
       /\ clients' = IF st.alive THEN [clients EXCEPT ![sock] = st.client]
                     ELSE close_client(sock)
       /\ closed' = IF st.alive THEN closed ELSE closed \cup {sock}
       /\ posts' = st.posts
       /\ next_post_id' = st.next_post_id
       /\ last' = [sock |-> sock, data |-> last.data, outcome |-> st.outcome,
                   trace |-> [last.trace EXCEPT ![n].sent = TRUE] \o st.trace,
                   notice |-> FALSE]
       /\ hist' = Record(hist, st.trace, now)
       /\ reactor' = "select"
       /\ inflight' = IF st.alive THEN inflight
                      ELSE [t \in DOMAIN inflight \ {sock} |-> inflight[t]]
       /\ unread' = IF st.alive THEN [unread EXCEPT ![sock] = 1 + st.writes]
                    ELSE [t \in DOMAIN unread \ {sock} |-> unread[t]]
       /\ UNCHANGED term

\* the peer closes or resets the connection and the blocked sendall raises
\* ConnectionError: close_client(sock) and return
SendallRaises ==
    /\ reactor = "sendall"
    /\ clients' = close_client(last.sock)
    /\ closed' = closed \cup {last.sock}
    /\ last' = [last EXCEPT !.outcome = "send_error"]
    /\ reactor' = "select"
    /\ inflight' = [t \in DOMAIN inflight \ {last.sock} |-> inflight[t]]
    /\ unread' = [t \in DOMAIN unread \ {last.sock} |-> unread[t]]
    /\ UNCHANGED <<posts, next_post_id, hist, term>>

(***************************************************************************)
(* client.py                                                               *)
(***************************************************************************)

\* str.encode("utf-8") of a text
RECURSIVE encode(_)
encode(text) ==
    IF text = <<>> THEN <<>>
    ELSE (IF Head(text) = "U+00E9" THEN <<"C3", "A9">> ELSE <<Head(text)>>) \o
         CHOOSE y \in {encode(t) : t \in {Tail(text)}} : TRUE

\* ClientConn.read_line once the buffer holds a line feed: the line with its
\* line feed, decoded, and the bytes left in the buffer; ok is FALSE where
\* decode raises
read_line(buf) ==
    LET parts == split1(buf, "\n")
        line == decode(parts[1] \o <<"\n">>)
    IN  [ok |-> line.ok, line |-> line.text, buf |-> parts[2]]

\* recv_count_framed: the n of range(n), the lines it reads after the first;
\* 0 where it returns first_line alone. The prefix is one element of a text
\* and holds the first two tokens of first_line.strip().split(); more are the
\* tokens after them.
recv_count_framed(first_line, expected_prefix) ==
    LET more == split(Tail(first_line))
    IN  IF Head(first_line) # expected_prefix THEN 0
        ELSE IF 2 + Len(more) # 3 THEN 0
        ELSE IF ~int_ok(more[1]) THEN 0
        ELSE IF int(more[1]) < 0 THEN 0
        ELSE int(more[1])

\* recv_response reading every response but that of LIST as one line
recv_response_list_only(first, sent_cmd) ==
    LET cmd == upper(split1(strip(sent_cmd), " ")[1])
    IN  IF cmd = CMD_LIST THEN recv_count_framed(first, "OK LIST ") ELSE 0

\* recv_response after its first read_line: the lines to read after the first
recv_response(first, sent_cmd) ==
    LET cmd == upper(split1(strip(sent_cmd), " ")[1])
    IN  IF cmd = CMD_LIST THEN recv_count_framed(first, "OK LIST ")
        ELSE IF cmd = CMD_HELP THEN recv_count_framed(first, "OK HELP ")
        ELSE 0

\* main from response = recv_response(conn, user_input) on, resumed with bytes
\* in the buffer, up to the next call of recv or of input: t.lines is what
\* the reads of this response returned so far, t.want the reads still to do
\* after the first
RECURSIVE main_receive(_)
main_receive(t) ==
    LET Got(r) ==
            LET lines == t.lines \o r.line
                want == IF t.lines = <<>> THEN recv_response(r.line, t.user_input)
                        ELSE t.want - 1
            IN  IF ~r.ok THEN [t EXCEPT !.pc = "exit", !.buf = r.buf]
                ELSE IF want > 0
                THEN CHOOSE y \in {main_receive(u) :
                                      u \in {[t EXCEPT !.buf = r.buf, !.lines = lines,
                                                       !.want = want]}} : TRUE
                ELSE [t EXCEPT !.buf = r.buf, !.lines = <<>>, !.want = 0,
                               !.printed = lines,
                               !.pc = IF upper(strip(t.user_input)) = CMD_QUIT
                                      THEN "exit" ELSE "input"]
    IN  IF IndexOf(t.buf, "\n") = 0 THEN [t EXCEPT !.pc = "recv"]
        ELSE CHOOSE y \in {Got(r) : r \in {read_line(t.buf)}} : TRUE

\* what the user types at the prompt
USER_INPUTS ==
    {<<"l", "o", "g", "i", "n", " ", "o", "l", "i", "v", "e", "r", " ", "p", "w", "1">>,
     <<"P", "O", "S", "T", " ", "h", "i">>,
     <<"p", "o", "s", "t", " ", "U+00E9">>,
     <<"L", "I", "S", "T">>,
     <<" ", "l", "i", "s", "t", "\t">>,
     <<"L", "I", "S", "T", " ", "x">>,
     <<"H", "E", "L", "P">>,
     <<"h", "e", "l", "p", " ", "g", "e", "t", " ">>,
     <<"h", "e", "l", "p", "\t", "g", "e", "t">>,
     <<"H", "E", "L", "P", " ", "f", "o", "o">>,
     <<"G", "E", "T", " ", "1">>,
     <<"Q", "U", "I", "T", " ", "n", "o", "w">>,
     <<"q", "u", "i", "t", " ">>,
     <<" ", "\t">>}

\* main of client.py: socket.create_connection, and the accept of the server
TermConnect ==
    /\ term.pc = "connect"
    /\ NewConnection(Socks[1])
    /\ term' = [term EXCEPT !.pc = "input"]
    /\ UNCHANGED <<inflight, unread>>

\* main of client.py: input returns user_input; a blank line is skipped, any
\* other is sent with one line feed and the first reads of its response are
\* made from the buffer. sendall may raise ConnectionError once the server
\* has closed the connection.
TermInput(user_input) ==
    LET RECURSIVE rstrip_lf(_)
        rstrip_lf(s) == IF s # <<>> /\ s[Len(s)] = "\n"
                        THEN rstrip_lf(SubSeq(s, 1, Len(s) - 1)) ELSE s
    IN  /\ term.pc = "input"
        /\ strip(user_input) # <<>>
        /\ \/ term' = main_receive(
                         [term EXCEPT !.user_input = user_input,
                                      !.to_server = @ \o encode(rstrip_lf(user_input) \o <<"\n">>),
                                      !.written = <<>>, !.lines = <<>>, !.want = 0])
           \/ /\ Socks[1] \in closed
              /\ term' = [term EXCEPT !.pc = "exit"]
        /\ UNCHANGED <<clients, closed, posts, next_post_id, last, hist, reactor,
                       inflight, unread>>

\* ClientConn.read_line: sock.recv(4096) returns the first k bytes that wait,
\* or no bytes once the server has closed the connection and none wait
TermRecv(k) ==
    /\ term.pc = "recv"
    /\ \/ /\ k \in 1..Len(term.to_client)
          /\ nbytes(SubSeq(term.to_client, 1, k)) <= RECV_SIZE
          /\ term' = main_receive(
                        [term EXCEPT !.buf = @ \o SubSeq(term.to_client, 1, k),
                                     !.to_client = SubSeq(@, k + 1, Len(@))])
       \/ /\ k = 0
          /\ term.to_client = <<>>
          /\ Socks[1] \in closed
          /\ term' = [term EXCEPT !.pc = "exit"]
    /\ UNCHANGED <<clients, closed, posts, next_post_id, last, hist, reactor,
                   inflight, unread>>

\* main of server.py: handle_client_socket on the socket of the terminal
\* client, whose read returns the first k bytes the client sent, or no bytes
\* once the client has left; the response writes reach the client, and none
\* fails while the client holds its socket open
ServerRecv(k, now) ==
    LET \* the bytes the response writes of a call put on the socket
        RECURSIVE Of(_)
        Of(trace) == IF trace = <<>> THEN <<>>
                     ELSE (IF Head(trace).sent THEN encode(Head(trace).response) ELSE <<>>)
                          \o Of(Tail(trace))
        Responses(call) ==
            Of(call.trace) \o (IF call.notice THEN <<"ERR Line too long", "\n">> ELSE <<>>)
    IN
    /\ term.pc # "connect"
    /\ \/ k \in 1..Len(term.to_server)
       \/ k = 0 /\ term.to_server = <<>> /\ term.pc = "exit"
    /\ Call(Socks[1], SubSeq(term.to_server, 1, k), now)
    /\ term.pc # "exit" => last'.outcome # "send_error"
    /\ \E bytes \in {Responses(last')} :
          term' = [term EXCEPT !.to_server = SubSeq(@, k + 1, Len(@)),
                               !.to_client = @ \o bytes,
                               !.written = @ \o bytes]
    /\ UNCHANGED <<inflight, unread>>

\* one iteration of the loop of main, the reads drawn from D: a peer sends
\* and the server reads what it sent in one step
Reactor(D) ==
    \/ \E i \in DOMAIN Socks : Accept(Socks[i])
    \/ \E i \in DOMAIN Socks, data \in D, now \in Clock :
          HandleClientSocket(Socks[i], data, now)

NextPosts == Reactor(DataPosts)

SpecPosts == Init /\ [][NextPosts]_vars

NextLogin == Reactor(DataLogin)

SpecLogin == Init /\ [][NextLogin]_vars

NextAuth == Reactor(DataAuth)

SpecAuth == Init /\ [][NextAuth]_vars

NextFraming == Reactor(DataFraming)

SpecFraming == Init /\ [][NextFraming]_vars

NextCap == Reactor(DataCap)

SpecCap == Init /\ [][NextCap]_vars

NextConn == Reactor(DataConn)

SpecConn == Init /\ [][NextConn]_vars

\* the runs of SpecConn with the reads that raise
NextLoss ==
    \/ Reactor(DataConn)
    \/ \E i \in DOMAIN Socks : RecvRaises(Socks[i])

SpecLoss == Init /\ [][NextLoss]_vars

\* the runs in which peers send and read and the server reads what was sent.
\* select returns every socket with bytes waiting and main calls
\* handle_client_socket for each of them before it waits again, so that a
\* socket that is readable whenever the reactor is in its readiness wait is
\* served, however often the reactor leaves the wait for other sockets;
\* nothing makes a peer read its responses or close.
NextLive ==
    \/ \E i \in DOMAIN Socks : AcceptLive(Socks[i])
    \/ \E i \in DOMAIN Socks, data \in DataLive : Send(Socks[i], data)
    \/ \E i \in DOMAIN Socks : PeerReads(Socks[i])
    \/ \E i \in DOMAIN Socks, now \in Clock : Recv(Socks[i], now)
    \/ \E i \in DOMAIN Socks, now \in Clock : SendallBlocks(Socks[i], now)
    \/ \E now \in Clock : SendallReturns(now)
    \/ SendallRaises

SpecLive ==
    /\ Init
    /\ [][NextLive]_vars
    /\ \A i \in DOMAIN Socks :
          SF_vars(\E now \in Clock : Recv(Socks[i], now) \/ SendallBlocks(Socks[i], now))

NextPipeline == Reactor(DataPipeline)

SpecPipeline == Init /\ [][NextPipeline]_vars

NextSyntax == Reactor(DataSyntax)

SpecSyntax == Init /\ [][NextSyntax]_vars

NextDispatch == Reactor(DataDispatch)

SpecDispatch == Init /\ [][NextDispatch]_vars

\* the terminal client and the server
NextClient ==
    \/ TermConnect
    \/ \E user_input \in USER_INPUTS : TermInput(user_input)
    \/ \E k \in 0..MaxChunk : TermRecv(k)
    \/ \E k \in 0..MaxChunk, now \in Clock : ServerRecv(k, now)

SpecClient == Init /\ [][NextClient]_vars

NextRoundTrip == Reactor(DataRoundTrip)

SpecRoundTrip == Init /\ [][NextRoundTrip]_vars

(***************************************************************************)
(* Properties                                                              *)
(***************************************************************************)

\* the entries of the last call, and its last entry
Entries == {last.trace[i] : i \in DOMAIN last.trace}

Served == last.trace # <<>>

LastEntry == last.trace[Len(last.trace)]

PostedIds == {hist.posted[k] : k \in DOMAIN hist.posted}

DeletedIds == {hist.deleted[k] : k \in DOMAIN hist.deleted}

\* the payload is one token that int() accepts
WellFormedId(rest) == Len(split(rest)) = 1 /\ int_ok(split(rest)[1])

IdOf(rest) == int(split(rest)[1])

Without(store, id) == [i \in DOMAIN store \ {id} |-> store[i]]

\* C1: the k-th POST answered OK since the start is answered with id k, a
\* rejected POST (ERR Not logged in, ERR Empty message) leaves the counter as
\* it was, and so no id is answered twice, deleted or not.
C1_KthPostGetsIdK ==
    /\ \A k \in DOMAIN hist.posted : hist.posted[k] = k
    /\ \A e \in Entries :
          (CmdOf(e.line) = CMD_POST /\ e.response \in {ERR_NOT_LOGGED_IN, ERR_EMPTY_MESSAGE})
             => e.after.next_post_id = e.before.next_post_id

\* C1 witness: a POST is answered with id 2 after post 1 was deleted.
C1_Witness ==
    /\ Served
    /\ IsPosted(LastEntry.response)
    /\ PostedId(LastEntry.response) = 2
    /\ hist.deleted = <<1>>

\* C2: a well-formed DEL <id> of an authenticated session is answered
\* ERR Not found when no post has that id; when the post exists it is removed
\* and the answer is OK Deleted <id> exactly when the session is an admin or
\* the author, and otherwise the answer is ERR Not authorized and the store is
\* unchanged.
C2_DelAuthorization ==
    \A e \in Entries :
       LET c == e.before.client
           id == IdOf(ArgOf(e.line))
       IN  (c.authenticated /\ CmdOf(e.line) = CMD_DEL /\ WellFormedId(ArgOf(e.line))) =>
              IF id \notin DOMAIN e.before.posts
              THEN e.response = ERR_NOT_FOUND /\ e.after.posts = e.before.posts
              ELSE IF c.role = "admin" \/ c.username = e.before.posts[id].author
              THEN /\ e.response = <<"OK Deleted ">> \o str(id) \o <<"\n">>
                   /\ e.after.posts = Without(e.before.posts, id)
              ELSE /\ e.response = ERR_NOT_AUTHORIZED
                   /\ e.after.posts = e.before.posts

\* C2 witness: a user who is not the author is refused, the post stays, and an
\* earlier DEL had succeeded.
C2_Witness ==
    /\ Served
    /\ CmdOf(LastEntry.line) = CMD_DEL
    /\ LastEntry.response = ERR_NOT_AUTHORIZED
    /\ LastEntry.before.client.role = "user"
    /\ IdOf(ArgOf(LastEntry.line)) \in DOMAIN posts
    /\ hist.deleted # <<>>

\* C7: the store is what the answered POSTs and DELs make it: no two answered
\* POSTs share an id, the stored ids are those posted and not deleted, no id
\* is answered OK Deleted twice or without having been posted, and the number
\* of stored posts is the POSTs answered OK minus the DELs answered OK.
C7_StoreIsSerial ==
    /\ \A i, j \in DOMAIN hist.posted : i # j => hist.posted[i] # hist.posted[j]
    /\ \A i, j \in DOMAIN hist.deleted : i # j => hist.deleted[i] # hist.deleted[j]
    /\ DeletedIds \subseteq PostedIds
    /\ DOMAIN posts = PostedIds \ DeletedIds
    /\ \A id \in DOMAIN posts : posts[id].id = id
    /\ Cardinality(DOMAIN posts) = Len(hist.posted) - Len(hist.deleted)

\* C7 witness: after two POSTs were answered OK, a connection other than the
\* author of post 2 deletes post 1, and post 2 alone is stored.
C7_Witness ==
    /\ Served
    /\ IsDeleted(LastEntry.response)
    /\ hist.posted = <<1, 2>>
    /\ hist.deleted = <<1>>
    /\ DOMAIN posts = {2}
    /\ posts[2].author # LastEntry.before.client.username

\* the lines of a text, each without its line feed
RECURSIVE Lines(_)
Lines(text) ==
    IF IndexOf(text, "\n") = 0 THEN <<>>
    ELSE <<split1(text, "\n")[1]>> \o Lines(split1(text, "\n")[2])

\* a well-formed GET of an id whose DEL was answered OK
GetOfDeleted(e) ==
    /\ CmdOf(e.line) = CMD_GET
    /\ WellFormedId(ArgOf(e.line))
    /\ IdOf(ArgOf(e.line)) \in DeletedIds

\* C8: a GET <id> or LIST of an authenticated session shows every post whose
\* POST was answered OK and whose DEL was not: GET answers the post as it was
\* posted, and ERR Not found once a DEL of the id was answered OK; LIST holds
\* one line for each such post and none for a deleted one. A GET of a deleted
\* id on a connection that is not logged in is answered ERR Not logged in.
C8_VisibleUntilDeleted ==
    /\ (Served /\ ~LastEntry.before.client.authenticated /\ GetOfDeleted(LastEntry)) =>
          LastEntry.response = ERR_NOT_LOGGED_IN
    /\ Served /\ LastEntry.before.client.authenticated =>
       LET e == LastEntry
           rest == ArgOf(e.line)
           id == IdOf(rest)
           p == hist.shown[id]
           visible == PostedIds \ DeletedIds
           listed == Tail(Lines(e.response))
       IN  /\ (CmdOf(e.line) = CMD_GET /\ WellFormedId(rest) /\ id \in visible) =>
                e.response = <<"OK ">> \o str(id) \o <<" ">> \o p.author \o
                             <<" ", p.timestamp, " ">> \o p.message \o <<"\n">>
           /\ (CmdOf(e.line) = CMD_GET /\ WellFormedId(rest) /\ id \in DeletedIds) =>
                e.response = ERR_NOT_FOUND
           /\ (CmdOf(e.line) = CMD_LIST /\ strip(rest) = <<>>) =>
                {int(split1(listed[i], " ")[1]) : i \in DOMAIN listed} = visible

\* C8 witness: a session that is not the author gets the stored post with GET
\* after another post was deleted.
C8_Witness ==
    /\ Served
    /\ CmdOf(LastEntry.line) = CMD_GET
    /\ Head(LastEntry.response) = "OK "
    /\ LastEntry.before.client.username # posts[IdOf(ArgOf(LastEntry.line))].author
    /\ hist.deleted # <<>>

\* C8 as stated: once a DEL <id> was answered OK, every later GET <id> on any
\* connection, logged in or not, is answered ERR Not found.
C8_NotFoundOnAnyConnection ==
    (Served /\ GetOfDeleted(LastEntry)) => LastEntry.response = ERR_NOT_FOUND

\* the commands that call require_auth
AuthCommands == {CMD_WHOAMI, CMD_POST, CMD_LIST, CMD_GET, CMD_DEL}

\* the last line of the call was answered and its response written
Answered == Served /\ LastEntry.sent

\* after the call its connection is live, with the session and the buffer the
\* last line left
StillOpen ==
    /\ last.sock \in DOMAIN clients
    /\ last.sock \notin closed
    /\ clients[last.sock] = LastEntry.after.client

\* C3: on a connection without a successful LOGIN every WHOAMI, POST, LIST,
\* GET and DEL line, whatever its payload, is answered ERR Not logged in and
\* leaves the session, the buffer, the Post Store and the id counter as they
\* were; the connection stays open once the response is written.
C3_NotLoggedIn ==
    /\ \A e \in Entries :
          (~e.before.client.authenticated /\ CmdOf(e.line) \in AuthCommands) =>
             /\ e.response = ERR_NOT_LOGGED_IN
             /\ e.after = e.before
             /\ ~e.should_close
    /\ (Answered /\ ~LastEntry.before.client.authenticated
                 /\ CmdOf(LastEntry.line) \in AuthCommands) =>
          /\ StillOpen
          /\ posts = LastEntry.before.posts
          /\ next_post_id = LastEntry.before.next_post_id

\* C3 witness: with a post stored, a malformed GET on a connection that never
\* logged in is answered ERR Not logged in and the connection is open.
C3_Witness ==
    /\ Answered
    /\ CmdOf(LastEntry.line) = CMD_GET
    /\ ~WellFormedId(ArgOf(LastEntry.line))
    /\ LastEntry.response = ERR_NOT_LOGGED_IN
    /\ DOMAIN posts # {}
    /\ last.sock \in DOMAIN clients
    /\ ~clients[last.sock].authenticated

\* the role of an authenticated session is the stored role of its username,
\* and a session that is not authenticated has none
RoleAsStored(c) ==
    IF c.authenticated
    THEN c.username \in DOMAIN USERS /\ c.role = SEEDED_PLAINTEXT_USERS[c.username].role
    ELSE c.role = "None"

\* C4: the role of every session is the role the Credential Store holds for
\* its username, after every line of every content; the reply to a successful
\* LOGIN names that role.
C4_RoleIsStoredRole ==
    /\ \A s \in DOMAIN clients : RoleAsStored(clients[s])
    /\ \A e \in Entries :
          /\ RoleAsStored(e.after.client)
          /\ (CmdOf(e.line) = CMD_LOGIN /\ Head(e.response) = "OK Logged in as ") =>
                e.response = <<"OK Logged in as ">> \o e.after.client.username \o
                             <<" (", SEEDED_PLAINTEXT_USERS[e.after.client.username].role,
                               ")", "\n">>

\* C4 witness: sam has logged in and the session has the role user.
C4_Witness ==
    /\ Answered
    /\ CmdOf(LastEntry.line) = CMD_LOGIN
    /\ ~LastEntry.before.client.authenticated
    /\ last.sock \in DOMAIN clients
    /\ clients[last.sock].authenticated
    /\ clients[last.sock].username = <<"s", "a", "m">>
    /\ clients[last.sock].role = "user"

\* the entries of a trace follow one another on the same session and stores
Chained(trace) ==
    \A i \in 1..(Len(trace) - 1) :
       /\ Session(trace[i + 1].before.client) = Session(trace[i].after.client)
       /\ trace[i + 1].before.posts = trace[i].after.posts

\* C5: the session of a connection changes only from unauthenticated to the
\* values of a LOGIN answered OK; from then on no step and no line changes
\* it, every LOGIN line is answered ERR Already logged in and every WHOAMI
\* without arguments reports that username and role.
C5_SessionSetOnce ==
    [][/\ \A s \in DOMAIN clients \cap DOMAIN clients' :
             /\ clients[s].authenticated =>
                   Session(clients'[s]) = Session(clients[s])
             /\ Session(clients'[s]) # Session(clients[s]) =>
                   /\ last'.sock = s
                   /\ last'.trace # <<>>
                   /\ Session(last'.trace[1].before.client) = Session(clients[s])
                   /\ Session(last'.trace[Len(last'.trace)].after.client)
                         = Session(clients'[s])
       /\ Chained(last'.trace)
       /\ \A i \in DOMAIN last'.trace :
             LET e == last'.trace[i] IN
             /\ Session(e.after.client) # Session(e.before.client) =>
                   /\ ~e.before.client.authenticated
                   /\ e.after.client.authenticated
                   /\ CmdOf(e.line) = CMD_LOGIN
                   /\ Head(e.response) = "OK Logged in as "
             /\ (e.before.client.authenticated /\ CmdOf(e.line) = CMD_LOGIN) =>
                   e.response = ERR_ALREADY_LOGGED_IN /\ e.after = e.before
             /\ (e.before.client.authenticated /\ CmdOf(e.line) = CMD_WHOAMI
                    /\ strip(ArgOf(e.line)) = <<>>) =>
                   e.response = <<"OK WHOAMI ">> \o e.before.client.username \o
                                <<" ", e.before.client.role, "\n">>
      ]_vars

\* C5 witness: oliver's session is sent valid credentials of another user, is
\* answered ERR Already logged in and is still oliver's.
C5_Witness ==
    /\ Answered
    /\ CmdOf(LastEntry.line) = CMD_LOGIN
    /\ LastEntry.response = ERR_ALREADY_LOGGED_IN
    /\ split(ArgOf(LastEntry.line))[1] # LastEntry.before.client.username
    /\ split(ArgOf(LastEntry.line))[1] \in DOMAIN USERS
    /\ last.sock \in DOMAIN clients
    /\ clients[last.sock].username = <<"o", "l", "i", "v", "e", "r">>

\* the two arguments are not a username with its password
BadCredentials(parts) ==
    \/ parts[1] \notin DOMAIN SEEDED_PLAINTEXT_USERS
    \/ SEEDED_PLAINTEXT_USERS[parts[1]].password # parts[2]

\* C6: a LOGIN with two arguments on an unauthenticated connection that fails
\* is answered ERR Invalid credentials whether the username is unknown or the
\* password is wrong, and leaves the session and the stores as they were and
\* the connection open.
C6_FailedLoginUniform ==
    /\ \A e \in Entries :
          (/\ ~e.before.client.authenticated
           /\ CmdOf(e.line) = CMD_LOGIN
           /\ Len(split(ArgOf(e.line))) = 2
           /\ BadCredentials(split(ArgOf(e.line)))) =>
             /\ e.response = ERR_INVALID_CREDENTIALS
             /\ e.after = e.before
             /\ ~e.should_close
    /\ (Answered /\ LastEntry.response = ERR_INVALID_CREDENTIALS) => StillOpen

\* C6 witness: one read holds a LOGIN of an unknown user and a LOGIN of sam
\* with a wrong password; both get the same response and the connection is
\* open.
C6_Witness ==
    /\ Answered
    /\ Len(last.trace) = 2
    /\ split(ArgOf(last.trace[1].line))[1] \notin DOMAIN USERS
    /\ split(ArgOf(last.trace[2].line))[1] \in DOMAIN USERS
    /\ last.trace[1].response = last.trace[2].response
    /\ last.trace[1].response = ERR_INVALID_CREDENTIALS
    /\ last.sock \in DOMAIN clients

\* the response is count-framed
IsFramed(response) == response # <<>> /\ Head(response) \in {"OK LIST ", "OK HELP "}

\* the count the header line of a count-framed response declares
Declared(response) == int(Tail(Lines(response)[1]))

\* the number of line feeds of a text
CountLF(text) == Cardinality({i \in DOMAIN text : text[i] = "\n"})

\* C9: every LIST and HELP success response is a header OK LIST <n> or
\* OK HELP <n> followed by exactly n lines, each ended by a line feed.
C9_CountFramed ==
    \A e \in Entries :
       IsFramed(e.response) =>
          /\ int_ok(Tail(Lines(e.response)[1]))
          /\ e.response[Len(e.response)] = "\n"
          /\ CountLF(e.response) = Declared(e.response) + 1
          /\ Len(Lines(e.response)) = Declared(e.response) + 1

\* C9 witness: a LIST declares one line after a post was deleted, and the
\* message listed holds a carriage return.
C9_Witness ==
    /\ Answered
    /\ Head(LastEntry.response) = "OK LIST "
    /\ Declared(LastEntry.response) = 1
    /\ hist.deleted # <<>>
    /\ \E id \in DOMAIN posts : \E i \in DOMAIN posts[id].message :
          posts[id].message[i] = "\r"

\* C10: a line answered ERR BAD_SYNTAX or ERR UNKNOWN_COMMAND, whatever its
\* command, leaves the session, the buffer remainder and the stores as they
\* were and does not close the connection: once the response is written the
\* connection is open.
C10_SyntaxErrorKeepsOpen ==
    /\ \A e \in Entries :
          e.response \in {ERR_BAD_SYNTAX, ERR_UNKNOWN_COMMAND} =>
             /\ e.after = e.before
             /\ ~e.should_close
    /\ (Answered /\ LastEntry.response \in {ERR_BAD_SYNTAX, ERR_UNKNOWN_COMMAND}) =>
          StillOpen

\* the step is a call of handle_client_socket on s whose read returned text
ReadText(s) ==
    /\ last'.sock = s
    /\ last'.outcome # "accepted"
    /\ last'.data # <<>>
    /\ decode(last'.data).ok

\* every connection but s is live with its session and buffer as they were
OthersUntouched(s) ==
    \A t \in DOMAIN clients \ {s} : t \in DOMAIN clients' /\ clients'[t] = clients[t]

\* C11: when the buffer with the text of one read appended encodes to more
\* than 65536 bytes, the call writes ERR Line too long at most once, closes
\* the connection and dispatches no line of the buffer; the stores and every
\* other connection are as they were. A buffer of 65536 bytes or less is not
\* refused.
C11_LineTooLong ==
    [][\A s \in DOMAIN clients :
          ReadText(s) =>
             IF encoded_len(clients[s].buffer \o decode(last'.data).text) > 65536
             THEN /\ last'.outcome = "too_long"
                  /\ last'.trace = <<>>
                  /\ s \notin DOMAIN clients'
                  /\ s \in closed'
                  /\ posts' = posts
                  /\ next_post_id' = next_post_id
                  /\ hist' = hist
                  /\ OthersUntouched(s)
             ELSE /\ last'.outcome # "too_long"
                  /\ ~last'.notice
      ]_vars

\* C11 witness: a connection holding 65536 bytes without a line feed receives
\* the end of that line and a complete LIST line; ERR Line too long is
\* written, nothing is dispatched, and the other connection, logged in and
\* with bytes of its own buffered, is live.
C11_Witness ==
    /\ last.outcome = "too_long"
    /\ last.notice
    /\ last.data = IN_LF_LIST
    /\ last.trace = <<>>
    /\ last.sock \in closed
    /\ \E t \in DOMAIN clients : clients[t].authenticated /\ clients[t].buffer # <<>>

\* the line is QUIT without arguments
IsQuit(line) == CmdOf(line) = CMD_QUIT /\ strip(ArgOf(line)) = <<>>

\* what holds after a call in which QUIT was dispatched
QuitClosed ==
    \A i \in DOMAIN last.trace :
       IsQuit(last.trace[i].line) =>
          /\ last.trace[i].response = OK_BYE
          /\ last.trace[i].after = last.trace[i].before
          /\ i = Len(last.trace)
          /\ last.sock \notin DOMAIN clients
          /\ last.sock \in closed
          /\ posts = last.trace[i].before.posts
          /\ next_post_id = last.trace[i].before.next_post_id

\* C12: QUIT without arguments is answered OK Bye and is the last line of
\* its call: the lines behind it in the buffer are not dispatched and change
\* nothing, the connection is no longer among the live ones, and no later
\* step reads from it, writes to it or brings it back.
C12_QuitCloses ==
    [][/\ QuitClosed'
       /\ last'.sock \notin closed
       /\ closed \subseteq closed'
       /\ closed' \cap DOMAIN clients' = {}
      ]_vars

\* C12 witness: a logged-in connection sends QUIT and a POST in one read; OK
\* Bye is the only response, no post is created and the connection is closed.
C12_Witness ==
    /\ last.data = IN_QUIT_THEN_POST
    /\ Len(last.trace) = 1
    /\ LastEntry.before.client.authenticated
    /\ LastEntry.response = OK_BYE
    /\ LastEntry.sent
    /\ last.sock \in closed
    /\ hist.posted = <<>>

\* the lines dispatched and the responses written, in order
Dispatched(trace) == [i \in DOMAIN trace |-> <<trace[i].line, trace[i].response>>]

\* C13: a read of valid UTF-8 text that is served in one piece dispatches the
\* same lines, writes the same responses and leaves the same session, buffer
\* and stores as the same bytes arriving in two reads, wherever they are cut.
C13_FragmentsEquivalent ==
    [][\A s \in DOMAIN clients :
          (ReadText(s) /\ last'.outcome \in {"served", "closed"}) =>
             \A k \in 1..(Len(last'.data) - 1) :
                \A two \in {Feed(clients[s],
                                  [posts |-> posts, next_post_id |-> next_post_id],
                                  <<SubSeq(last'.data, 1, k),
                                    SubSeq(last'.data, k + 1, Len(last'.data))>>,
                                  CHOOSE t \in Clock : TRUE)} :
                    /\ Dispatched(two.trace) = Dispatched(last'.trace)
                    /\ two.posts = posts'
                    /\ two.next_post_id = next_post_id'
                    /\ two.alive = (s \in DOMAIN clients')
                    /\ two.alive => two.client = clients'[s]
      ]_vars

\* the complete lines of a text in the order sent, each without its line feed
\* and trailing carriage returns, the empty ones left out
RECURSIVE SentLines(_)
SentLines(text) ==
    IF IndexOf(text, "\n") = 0 THEN <<>>
    ELSE LET line == rstrip_cr(split1(text, "\n")[1])
         IN  (IF line = <<>> THEN <<>> ELSE <<line>>) \o SentLines(split1(text, "\n")[2])

\* p is a prefix of q
IsPrefix(p, q) == Len(p) <= Len(q) /\ SubSeq(q, 1, Len(p)) = p

\* p is a suffix of q
IsSuffix(p, q) == Len(p) <= Len(q) /\ SubSeq(q, Len(q) - Len(p) + 1, Len(q)) = p

\* C14: one call dispatches the complete lines of the connection's buffer in
\* the order they were sent, all of them unless the call closes the
\* connection; a line is dispatched only after the response to the one before
\* it was written; each line finds the session and the stores as the line
\* before it left them, the first as they were before the call and the state
\* after the call is what the last line left, so that no line of another
\* connection takes effect in between.
C14_LinesInOrder ==
    [][\A s \in DOMAIN clients :
          ReadText(s) =>
             \A sent \in {SentLines(clients[s].buffer \o decode(last'.data).text)} :
             \A trace \in {last'.trace} :
             \A n \in {Len(last'.trace)} :
                 /\ IsPrefix([i \in 1..n |-> trace[i].line], sent)
                 /\ s \in DOMAIN clients' =>
                       /\ n = Len(sent)
                       /\ IndexOf(clients'[s].buffer, "\n") = 0
                 /\ \A i \in 1..(n - 1) :
                       /\ trace[i].sent
                       /\ trace[i + 1].before.posts = trace[i].after.posts
                       /\ trace[i + 1].before.next_post_id = trace[i].after.next_post_id
                       /\ Session(trace[i + 1].before.client) = Session(trace[i].after.client)
                 /\ n > 0 =>
                       /\ trace[1].before.posts = posts
                       /\ trace[1].before.next_post_id = next_post_id
                       /\ Session(trace[1].before.client) = Session(clients[s])
                       /\ trace[n].after.posts = posts'
                       /\ trace[n].after.next_post_id = next_post_id'
                 /\ OthersUntouched(s)
      ]_vars

\* C14 witness: one read holds a POST and a LIST; both are dispatched in that
\* order, the LIST shows the post of the line before it, and the other
\* connection is live with a partial line buffered.
C14_Witness ==
    /\ last.data = IN_POST_THEN_LIST
    /\ Len(last.trace) = 2
    /\ IsPosted(last.trace[1].response)
    /\ last.trace[1].sent
    /\ Head(last.trace[2].response) = "OK LIST "
    /\ Declared(last.trace[2].response) = Cardinality(DOMAIN posts)
    /\ \E t \in DOMAIN clients : t # last.sock /\ clients[t].buffer # <<>>

\* the step closes the connection it serves
Lost == last'.sock \in DOMAIN clients /\ last'.sock \notin DOMAIN clients'

\* C15: a step in which the served connection is lost, whatever ended it,
\* removes that connection alone: every other live connection is live
\* afterwards with its buffer and session as they were, the posts in the
\* store are kept, and the reactor is back in its readiness wait.
C15_LossIsLocal ==
    [][Lost =>
          /\ OthersUntouched(last'.sock)
          /\ reactor' = "select"
          /\ \A id \in DOMAIN posts : id \in DOMAIN posts' /\ posts'[id] = posts[id]
          /\ closed' = closed \cup {last'.sock}
      ]_vars

\* the server is inside a response write to s that has not returned
Blocked(s) == reactor = "sendall" /\ last.sock = s

\* C16: the bytes a peer has sent on an open connection are eventually read
\* and their lines answered, or the connection is closed, whatever the peers
\* of the other connections do; the only connection that may wait is one
\* whose own peer is not reading the response being written to it.
C16_OthersAnswered ==
    \A i \in DOMAIN Socks :
       (Socks[i] \in DOMAIN inflight)
          ~> (Socks[i] \notin DOMAIN inflight \/ Blocked(Socks[i]))

\* the error lines of protocol.py
ERRORS ==
    {ERR_NOT_LOGGED_IN, ERR_BAD_SYNTAX, ERR_UNKNOWN_COMMAND, ERR_ALREADY_LOGGED_IN,
     ERR_INVALID_CREDENTIALS, ERR_EMPTY_MESSAGE, ERR_NOT_FOUND, ERR_NOT_AUTHORIZED}

\* how the success responses of protocol.py begin
OK_HEADS ==
    {"OK HELP ", "OK WHOAMI ", "OK Logged in as ", "OK Post ", "OK LIST ", "OK ",
     "OK Deleted ", "OK Bye"}

\* the response is one line, ended by its only line feed
OneLine(response) ==
    /\ response # <<>>
    /\ response[Len(response)] = "\n"
    /\ CountLF(response) = 1

\* the outcomes of a call that are fatal for the connection
FATAL == {"too_long", "bad_data", "disconnected", "send_error"}

\* what holds of the last call: one response per dispatched line, and nothing
\* after a fatal event
OneResponseEach ==
    /\ \A i \in DOMAIN last.trace :
          \E e \in {last.trace[i]} :
             /\ e.line # <<>>
             /\ \/ e.response \in ERRORS /\ OneLine(e.response)
                \/ /\ Head(e.response) \in OK_HEADS
                   /\ IF IsFramed(e.response)
                      THEN CountLF(e.response) = Declared(e.response) + 1
                      ELSE OneLine(e.response)
             /\ e.sent \/ (i = Len(last.trace) /\ last.outcome = "send_error")
    /\ last.outcome \in FATAL =>
          /\ last.sock \notin DOMAIN clients
          /\ last.sock \in closed
    /\ last.outcome \in {"bad_data", "disconnected"} =>
          /\ last.trace = <<>>
          /\ ~last.notice
    /\ last.outcome = "send_error" =>
          /\ last.trace # <<>>
          /\ ~LastEntry.sent

\* C17: every line a call dispatches is non-empty and gets one response,
\* either one of the ERR lines or a success response that is one line or one
\* count-framed block; every response but one whose write failed was
\* written; a call that ends in a fatal event closes the connection, writes
\* nothing after the event and dispatches no line after it; and no later
\* step serves a closed connection.
C17_OneResponsePerLine ==
    /\ []OneResponseEach
    /\ [][/\ last'.sock \notin closed
          /\ (last'.outcome \in {"bad_data", "disconnected"}) =>
                (posts' = posts /\ next_post_id' = next_post_id /\ hist' = hist)
         ]_vars

\* C17 witness: a read holds two unknown commands; the write of the first ERR
\* UNKNOWN_COMMAND fails, the second line is not dispatched and the connection
\* is closed.
C17_Witness ==
    /\ last.data = IN_TWO_SHORT
    /\ last.outcome = "send_error"
    /\ Len(last.trace) = 1
    /\ LastEntry.response = ERR_UNKNOWN_COMMAND
    /\ ~LastEntry.sent
    /\ last.sock \in closed

\* the bytes are not valid UTF-8: a byte that never occurs in UTF-8, a lead
\* byte without its continuation byte, or a continuation byte without its
\* lead byte
InvalidUtf8(data) ==
    \E i \in DOMAIN data :
       \/ data[i] = "FF"
       \/ data[i] = "C3" /\ (i = Len(data) \/ data[i + 1] # "A9")
       \/ data[i] = "A9" /\ (i = 1 \/ data[i - 1] # "C3")

\* C18: a call whose read holds bytes that are not valid UTF-8 closes the
\* connection, writes nothing and dispatches no line, not even a complete
\* valid line in front of the bad bytes; the stores, the record of posts and
\* every other connection are as they were.
C18_BadBytesClose ==
    [][\A s \in DOMAIN clients :
          (last'.sock = s /\ last'.outcome # "accepted" /\ InvalidUtf8(last'.data)) =>
             /\ last'.outcome = "bad_data"
             /\ last'.trace = <<>>
             /\ ~last'.notice
             /\ s \notin DOMAIN clients'
             /\ s \in closed'
             /\ posts' = posts
             /\ next_post_id' = next_post_id
             /\ hist' = hist
             /\ OthersUntouched(s)
      ]_vars

\* C18 witness: a read holds a complete POST line followed by an invalid
\* byte; the connection is closed, nothing was dispatched, and the store holds
\* the post made before on a connection that is still live.
C18_Witness ==
    /\ last.data = IN_POST_THEN_BAD
    /\ last.outcome = "bad_data"
    /\ last.trace = <<>>
    /\ last.sock \in closed
    /\ Cardinality(DOMAIN posts) = 1
    /\ hist.posted = <<1>>
    /\ \E t \in DOMAIN clients : clients[t].authenticated

\* a received line without its line terminator: one trailing carriage return
\* removed, nothing else
StripOneCR(raw) ==
    IF raw # <<>> /\ raw[Len(raw)] = "\r" THEN SubSeq(raw, 1, Len(raw) - 1) ELSE raw

\* the lines of a text as received, each without its line terminator
ReceivedLines(text) == [i \in DOMAIN Lines(text) |-> StripOneCR(Lines(text)[i])]

\* the line is POST, one space and a payload
IsPostLine(line) == Len(line) > 5 /\ SubSeq(line, 1, 5) = CMD_POST \o <<" ">>

\* the payload of such a line
PayloadOf(line) == SubSeq(line, 6, Len(line))

\* C19: when a read holds the line POST m, with m not blank, and then the GET
\* of the id that POST returns, the GET is answered OK <id> <author>
\* <timestamp> m, the author being the poster's username and m the payload
\* as received, one trailing carriage return of the line apart.
C19_PostGetRoundTrip ==
    (last.outcome = "served" /\ Len(last.trace) = 2) =>
       \A received \in {ReceivedLines(decode(last.data).text)} :
          (/\ Len(received) = 2
           /\ IsPostLine(received[1])
           /\ strip(PayloadOf(received[1])) # <<>>
           /\ IsPosted(last.trace[1].response)
           /\ received[2] = CMD_GET \o <<" ">> \o str(PostedId(last.trace[1].response))) =>
              \E timestamp \in Clock :
                 last.trace[2].response =
                    <<"OK ">> \o str(PostedId(last.trace[1].response)) \o <<" ">>
                       \o last.trace[1].before.client.username
                       \o <<" ", timestamp, " ">>
                       \o PayloadOf(received[1]) \o <<"\n">>

\* the line is a LOGIN of a seeded user with that user's password
GoodLogin(line) ==
    /\ CmdOf(line) = CMD_LOGIN
    /\ Len(split(ArgOf(line))) = 2
    /\ ~BadCredentials(split(ArgOf(line)))

\* the entries of the step that are a LOGIN answered OK
LoggedIn(trace) ==
    {i \in DOMAIN trace : CmdOf(trace[i].line) = CMD_LOGIN
                           /\ Head(trace[i].response) = "OK Logged in as "}

\* C20: a step changes the session of no connection but the one it serves; a
\* connection starts unauthenticated and becomes authenticated only by a
\* LOGIN of its own that is answered OK; and a LOGIN with a user's own
\* password on an unauthenticated connection is answered OK Logged in as
\* <user> (<role>) whoever is logged in on the other connections, under that
\* username or any other.
C20_LoginPerConnection ==
    [][/\ OthersUntouched(last'.sock)
       /\ last'.outcome = "accepted" => ~clients'[last'.sock].authenticated
       /\ \A s \in DOMAIN clients \cap DOMAIN clients' :
             (clients'[s].authenticated /\ ~clients[s].authenticated) =>
                (s = last'.sock /\ LoggedIn(last'.trace) # {})
       /\ \A i \in DOMAIN last'.trace :
             \A e \in {last'.trace[i]} :
                (GoodLogin(e.line) /\ ~e.before.client.authenticated) =>
                   \A user \in {split(ArgOf(e.line))[1]} :
                      /\ e.response = <<"OK Logged in as ">> \o user
                                         \o <<" (", USERS[user].role, ")", "\n">>
                      /\ e.after.client.authenticated
                      /\ e.after.client.username = user
      ]_vars

\* C20 witness: a LOGIN as oliver is answered OK on one connection while the
\* other connection is logged in as oliver too.
C20_Witness ==
    /\ Answered
    /\ GoodLogin(LastEntry.line)
    /\ LastEntry.response =
          <<"OK Logged in as ", "o", "l", "i", "v", "e", "r", " (", "user", ")", "\n">>
    /\ \A i \in DOMAIN Socks :
          /\ Socks[i] \in DOMAIN clients
          /\ clients[Socks[i]].authenticated
          /\ clients[Socks[i]].username = <<"o", "l", "i", "v", "e", "r">>

\* what holds of every stored post and of every POST answered OK in the last
\* call
PostsWellFormed ==
    /\ \A id \in DOMAIN posts :
          /\ posts[id].id = id
          /\ posts[id].author \in DOMAIN SEEDED_PLAINTEXT_USERS
          /\ strip(posts[id].message) # <<>>
          /\ id \in DOMAIN hist.shown
          /\ posts[id].author = hist.shown[id].author
          /\ posts[id].message = hist.shown[id].message
    /\ \A e \in Entries :
          IsPosted(e.response) =>
             \A id \in {PostedId(e.response)} :
                /\ e.before.client.authenticated
                /\ id \notin DOMAIN e.before.posts
                /\ id \in DOMAIN e.after.posts
                /\ e.after.posts[id].author = e.before.client.username
                /\ e.after.posts[id].message = ArgOf(e.line)

\* C21: every stored post carries its own id, an author that is a user of the
\* Credential Store and was the authenticated user of the connection whose
\* POST created it, and a message that is not blank; a step leaves every
\* stored post as it was unless a DEL answered OK in that step removed it,
\* and adds only posts created by a POST answered OK in that step.
C21_PostsWellFormed ==
    /\ []PostsWellFormed
    /\ [][/\ \A id \in DOMAIN posts :
                IF id \in DOMAIN posts' THEN posts'[id] = posts[id]
                ELSE \E k \in DOMAIN hist'.deleted :
                        k > Len(hist.deleted) /\ hist'.deleted[k] = id
          /\ \A id \in DOMAIN posts' \ DOMAIN posts :
                \E k \in DOMAIN hist'.posted :
                   k > Len(hist.posted) /\ hist'.posted[k] = id
         ]_vars

\* C21 witness: two posts of two authors are stored, the connection of one
\* author is closed, and the last step was a DEL that was refused.
C21_Witness ==
    /\ DOMAIN posts = {1, 2}
    /\ posts[1].author # posts[2].author
    /\ \E id \in DOMAIN posts :
          \A s \in DOMAIN clients : clients[s].username # posts[id].author
    /\ closed # {}
    /\ Served
    /\ LastEntry.response = ERR_NOT_AUTHORIZED

\* the first whitespace-delimited token of a line and what follows its
\* delimiter
TokenOf(line) == SubSeq(line, 1, TokenLen(line))

RestOf(line) == SubSeq(line, TokenLen(line) + 2, Len(line))

\* the line of entry e was answered by the handler its first
\* whitespace-delimited token names, given the rest of the line
DispatchedByToken(e) ==
    \A cmd \in {upper(TokenOf(e.line))} :
       IF cmd \notin DOMAIN COMMANDS
       THEN /\ e.response = ERR_UNKNOWN_COMMAND
            /\ ~e.should_close
            /\ e.after = e.before
       ELSE \E now \in Clock :
            \A r \in {handler(cmd, e.before.client, RestOf(e.line),
                              [posts |-> e.before.posts,
                               next_post_id |-> e.before.next_post_id,
                               now |-> now])} :
               /\ e.response = r.response
               /\ e.should_close = COMMANDS[cmd]
               /\ e.after = [client |-> r.client, posts |-> r.posts,
                             next_post_id |-> r.next_post_id]

\* C22: every non-empty line is answered by the handler that its first
\* whitespace-delimited token names after upper-casing, the token ending at
\* the first whitespace character (space or tab) and the rest of the line
\* going to the handler unchanged; a token that names no command is answered
\* ERR UNKNOWN_COMMAND.
C22_DispatchByToken == \A e \in Entries : DispatchedByToken(e)

\* C22 for the lines whose first space comes before any other whitespace
C22_DispatchBySpace ==
    \A e \in Entries :
       TokenLen(e.line) = Len(split1(e.line, " ")[1]) => DispatchedByToken(e)

\* the complete lines of a text that are not empty once one trailing carriage
\* return is removed
NonEmptyLines(text) ==
    LET NotEmpty(line) == line # <<>> IN SelectSeq(ReceivedLines(text), NotEmpty)

\* C23: a line that is empty once its carriage return is removed is not
\* dispatched and gets no response; a read that completes only such lines
\* leaves the session, the stores and every other connection as they were and
\* the connection open; the lines after an empty line are dispatched, the
\* first of them from the session and the stores as they were before the
\* call.
C23_EmptyLineIgnored ==
    [][\A s \in DOMAIN clients :
          (ReadText(s) /\ last'.outcome # "too_long") =>
             \A text \in {clients[s].buffer \o decode(last'.data).text} :
             \A sent \in {NonEmptyLines(text)} :
             \A trace \in {last'.trace} :
                 /\ \A i \in DOMAIN trace : trace[i].line # <<>>
                 /\ IsPrefix([i \in DOMAIN trace |-> trace[i].line], sent)
                 /\ s \in DOMAIN clients' => Len(trace) = Len(sent)
                 /\ trace # <<>> =>
                       /\ trace[1].before.posts = posts
                       /\ trace[1].before.next_post_id = next_post_id
                       /\ Session(trace[1].before.client) = Session(clients[s])
                 /\ sent = <<>> =>
                       /\ trace = <<>>
                       /\ last'.outcome = "served"
                       /\ s \in DOMAIN clients'
                       /\ closed' = closed
                       /\ Session(clients'[s]) = Session(clients[s])
                       /\ IndexOf(clients'[s].buffer, "\n") = 0
                       /\ IsSuffix(clients'[s].buffer, text)
                       /\ posts' = posts
                       /\ next_post_id' = next_post_id
                       /\ hist' = hist
                 /\ OthersUntouched(s)
      ]_vars

\* C23 witness: a read holds an empty line and then LIST; the session is
\* logged in and a post is stored, the LIST is answered with that post and
\* the connection is live.
C23_Witness ==
    /\ last.data = IN_LF_LIST
    /\ Len(last.trace) = 1
    /\ Head(LastEntry.response) = "OK LIST "
    /\ Declared(LastEntry.response) = 1
    /\ posts # <<>>
    /\ StillOpen

\* a read of one empty line ended by CR LF on a logged-in connection with a
\* post stored
C23_OnlyEmptyLine ==
    /\ last.data = IN_EMPTY_LINE
    /\ last.outcome = "served"
    /\ last.trace = <<>>
    /\ posts # <<>>
    /\ clients[last.sock].authenticated

\* the k-th smallest id of a store
KthId(store, k) ==
    CHOOSE id \in DOMAIN store : Cardinality({j \in DOMAIN store : j < id}) = k - 1

\* the line is LIST without arguments, from an authenticated session
IsList(e) ==
    /\ CmdOf(e.line) = CMD_LIST
    /\ strip(ArgOf(e.line)) = <<>>
    /\ e.before.client.authenticated

\* C24: a LIST without arguments from an authenticated session is answered
\* with the header OK LIST <n> and after it one line per stored post and no
\* other line, in ascending order of id, each line being <id> <author>
\* <timestamp> <message> of its post; the LIST changes neither the session nor
\* the stores.
C24_ListShowsStore ==
    \A e \in Entries :
       IsList(e) =>
          \A store \in {e.before.posts} :
          \A shown \in {Lines(e.response)} :
             /\ e.response # <<>> /\ e.response[Len(e.response)] = "\n"
             /\ Len(shown) = Cardinality(DOMAIN store) + 1
             /\ shown[1] = <<"OK LIST ">> \o str(Cardinality(DOMAIN store))
             /\ \A k \in 1..Cardinality(DOMAIN store) :
                   \A p \in {store[KthId(store, k)]} :
                      shown[k + 1] = str(p.id) \o <<" ">> \o p.author \o
                                     <<" ", p.timestamp, " ">> \o p.message
             /\ e.after = e.before
             /\ ~e.should_close

\* C24 witness: a LIST is answered with the posts of two authors, and its
\* response is written.
C24_Witness ==
    /\ Answered
    /\ IsList(LastEntry)
    /\ Declared(LastEntry.response) = 2
    /\ posts[1].author # posts[2].author

\* the terminal client is at its prompt, or has left after printing a
\* response
BetweenCommands == term.pc = "input" \/ (term.pc = "exit" /\ term.lines = <<>> /\ term.buf = <<>>)

\* the terminal client waits in recv for bytes that nothing will bring: the
\* connection is live, the server has read all the client sent and the client
\* all the server wrote
WaitsForNothing ==
    /\ term.pc = "recv"
    /\ term.to_client = <<>>
    /\ term.to_server = <<>>
    /\ Socks[1] \in DOMAIN clients
    /\ IndexOf(clients[Socks[1]].buffer, "\n") = 0

\* C25: when the terminal client is at its prompt, the response it printed
\* for the line typed last is all the server wrote since that line was sent
\* and nothing else, its receive buffer is empty and no byte of a response
\* waits on the socket; and it never waits in recv for lines the server will
\* not send.
C25_InFrame ==
    /\ term.pc = "input" =>
          /\ term.buf = <<>>
          /\ term.to_client = <<>>
          /\ term.to_server = <<>>
          /\ encode(term.printed) = term.written
    /\ ~WaitsForNothing

\* C25 witness: the terminal client is back at its prompt after a LIST whose
\* response declared two lines, one of them with a two-byte character.
C25_Witness ==
    /\ term.pc = "input"
    /\ term.user_input = <<"L", "I", "S", "T">>
    /\ Head(term.printed) = "OK LIST "
    /\ Declared(term.printed) = 2
    /\ CountLF(term.printed) = 3
    /\ \E i \in DOMAIN term.printed : term.printed[i] = "U+00E9"

\* C26: whenever the reactor is in its readiness wait, the buffer of every
\* live connection holds no line feed and encodes to at most 65536 bytes, and
\* no live connection is one that close_client has closed.
C26_IdleBuffers ==
    reactor = "select" =>
       /\ \A s \in DOMAIN clients :
             /\ IndexOf(clients[s].buffer, "\n") = 0
             /\ encoded_len(clients[s].buffer) <= 65536
       /\ DOMAIN clients \cap closed = {}

\* C26 witness: in the readiness wait one connection is live with a buffer of
\* exactly 65536 bytes, and the last call closed the other for a buffer over
\* the cap.
C26_Witness ==
    /\ reactor = "select"
    /\ closed # {}
    /\ \E s \in DOMAIN clients : encoded_len(clients[s].buffer) = 65536
    /\ last.outcome = "too_long"

\* the last call ended at a response write that raised ConnectionError
WriteFailed == last.outcome = "send_error" /\ Served /\ ~LastEntry.sent

\* the first line of the next call, from an authenticated session, is the GET
\* of id
NextGets(id) ==
    /\ last'.trace # <<>>
    /\ last'.trace[1].before.client.authenticated
    /\ CmdOf(last'.trace[1].line) = CMD_GET
    /\ WellFormedId(ArgOf(last'.trace[1].line))
    /\ IdOf(ArgOf(last'.trace[1].line)) = id

\* the first line of the next call is a LIST from an authenticated session
NextLists ==
    /\ last'.trace # <<>>
    /\ last'.trace[1].before.client.authenticated
    /\ CmdOf(last'.trace[1].line) = CMD_LIST
    /\ strip(ArgOf(last'.trace[1].line)) = <<>>

\* C27: when the write of OK Post <id> created or of OK Deleted <id> fails,
\* the connection is closed and the effect of the line stays: the post is
\* stored and its id consumed, or the post is gone; the next call, on another
\* connection, sees it: GET <id> is answered with the post, or ERR Not found
\* after the DEL, and LIST declares the stored posts.
C27_EffectBeforeWrite ==
    /\ [](WriteFailed =>
            /\ last.sock \in closed
            /\ last.sock \notin DOMAIN clients
            /\ posts = LastEntry.after.posts
            /\ next_post_id = LastEntry.after.next_post_id
            /\ IsPosted(LastEntry.response) =>
                  \A id \in {PostedId(LastEntry.response)} :
                     /\ id \in DOMAIN posts
                     /\ id \notin DOMAIN LastEntry.before.posts
                     /\ posts[id].message = ArgOf(LastEntry.line)
                     /\ next_post_id = id + 1
            /\ IsDeleted(LastEntry.response) =>
                  \A id \in {DeletedId(LastEntry.response)} :
                     /\ id \notin DOMAIN posts
                     /\ id \in DOMAIN LastEntry.before.posts
                     /\ next_post_id > id)
    /\ [][(WriteFailed /\ last'.sock # last.sock) =>
             /\ IsPosted(LastEntry.response) =>
                   \A id \in {PostedId(LastEntry.response)} :
                      NextGets(id) =>
                         last'.trace[1].response =
                            <<"OK ">> \o str(id) \o <<" ">> \o
                            LastEntry.before.client.username \o
                            <<" ", posts[id].timestamp, " ">> \o ArgOf(LastEntry.line) \o
                            <<"\n">>
             /\ IsDeleted(LastEntry.response) =>
                   (NextGets(DeletedId(LastEntry.response)) =>
                       last'.trace[1].response = ERR_NOT_FOUND)
             /\ (IsPosted(LastEntry.response) \/ IsDeleted(LastEntry.response)) =>
                   (NextLists =>
                       /\ Head(last'.trace[1].response) = "OK LIST "
                       /\ Declared(last'.trace[1].response) =
                             Cardinality(DOMAIN LastEntry.after.posts))
        ]_vars

\* C27 witness: the write of OK Post 2 created failed; post 2 is stored, the
\* connection is closed and the other connection is live and logged in.
C27_Witness ==
    /\ WriteFailed
    /\ IsPosted(LastEntry.response)
    /\ PostedId(LastEntry.response) = 2
    /\ 2 \in DOMAIN posts
    /\ next_post_id = 3
    /\ \E s \in DOMAIN clients : clients[s].authenticated

\* the write of OK Deleted 1 failed and post 1 is gone
C27_DelWriteFailed ==
    /\ WriteFailed
    /\ IsDeleted(LastEntry.response)
    /\ \E s \in DOMAIN clients : clients[s].authenticated

====
